---- MODULE Spec2Model ----
(***************************************************************************)
(* Verification model of the worklog application (matlabuild/worklog):     *)
(*   - utils/timeUtils: hasOverlap, checkForSessionOverlap                  *)
(*   - App: the work-session form and handleStartSession                    *)
(*   - WorkSessionLog: the session list, its edit form and delete           *)
(*   - AnalyticsPage: the date window and the chartData aggregation         *)
(* Instants are JavaScript Date values (milliseconds); a stored timestamp   *)
(* is the {seconds} object the code reads.                                  *)
(***************************************************************************)
EXTENDS Integers, Sequences, FiniteSets, TLC

VARIABLES
    \* ---- timeUtils.hasOverlap called on its own
    ovInstants,      \* the four instants <<start1, end1, start2, end2>> in ms
    ovRanges,        \* <<range1, range2>>: the TimeRange arguments
    ovCalled,        \* whether hasOverlap has returned
    ovResult,        \* the boolean it returned
    \* ---- timeUtils.checkForSessionOverlap called on its own
    ckDocs,          \* the workSessions documents the query runs on
    ckArgs,          \* [userId, startTime, endTime, excludeSessionId]
    ckCalled,        \* whether the promise has resolved
    ckResult,        \* the boolean it resolved with
    \* ---- the workSessions collection of the document store
    store,           \* set of documents [id, userId, startTime, endTime]
    \* ---- App
    user,            \* uid of the signed-in user
    showForm,        \* App.showForm
    editingSession,  \* App.editingSession (NoSession when null)
    refreshTrigger,  \* App.refreshTrigger
    starts,          \* running handleStartSession calls, by slot
    alertShown,      \* text of the alert() dialog on screen, "" when none
    \* ---- other windows on the same store
    tab,             \* the running handleStartSession call of a second tab of the user
    mock,            \* the running handleGenerateDummyData call of another user
    \* ---- WorkSessionLog
    sessions,        \* WorkSessionLog.sessions
    groupedSessions, \* WorkSessionLog.groupedSessions: date key -> sessions
    loading,         \* WorkSessionLog.loading
    logError,        \* WorkSessionLog.error is set
    logEditing,      \* WorkSessionLog.editingSession (NoSession when null)
    fetches,         \* running fetchSessions calls
    logOp,           \* the running handleEditSubmit / handleDelete call
    \* ---- AnalyticsPage
    now,             \* what new Date() returns, in ms
    anSessions,      \* AnalyticsPage.sessions
    anLoading,       \* AnalyticsPage.loading
    dateRange,       \* AnalyticsPage.dateRange: [start, end] in ms
    showComparison,  \* AnalyticsPage.showComparison
    selectedRangeLabel,
    showCustomRange,
    customStartDate, \* the day typed into the start input, <<>> when empty
    customEndDate,
    chartCalled,     \* whether chartData has been evaluated
    chart,           \* its outcome: [threw, value]
    \* ---- the users collection of the document store and its security rules
    rulesEnforced,   \* whether the store enforces firestore.rules
    profiles,        \* uid -> [friends, incoming, outgoing] of the user document
    \* ---- UserSearch and FriendsList of the signed-in user
    searchResults,   \* UserSearch.searchResults: set of [id, requestSent]
    searchError,     \* UserSearch.error is set
    friends,         \* FriendsList.friends, as ids
    incomingRequests,\* FriendsList.incomingRequests, as ids
    friendsLoading,  \* FriendsList.loading
    friendsError,    \* FriendsList.error is set
    friendsFetch,    \* the running fetchFriendsAndRequests call: [pc, userData, ended]
    call,            \* the running or last send / accept / reject call:
                     \* [pc, kind, target, failure, changed], changed telling
                     \* whether a write of the call altered a document
    \* ---- the username field of the user documents; UsernameSetup and
    \* ---- ProfilePage, one window per user
    usernames,       \* uid -> username of the user document, "" when there is no document
    nameOp,          \* uid -> the running handleSubmit call: [pc, username]
    nameError,       \* uid -> the error the page shows, "" when none
    \* ---- FriendProfile, opened from FriendsList
    showWorkSessions,\* uid -> privacySettings.showWorkSessions of the user document
    selectedFriend,  \* FriendsList.selectedFriend, the friendId prop; "" when null
    fpLoading,       \* FriendProfile.loading
    friend,          \* FriendProfile.friend: [id, showWorkSessions], NoFriend when null
    stats,           \* FriendProfile.stats, NoStats when null
    fpFetches,       \* running fetchFriendProfile calls: [friendId, pc]
    \* ---- write requests of any client on workSessions, judged by firestore.rules
    request,         \* the last write request: [auth, op, id, userId, allowed]
    \* ---- App: the profile check behind the main pages
    needsUsernameSetup, \* App.needsUsernameSetup
    appLoading,      \* App.loading
    profileChecks    \* uids of the running checkUserProfile calls

ovVars == <<ovInstants, ovRanges, ovCalled, ovResult, ckDocs, ckArgs, ckCalled, ckResult>>
appVars == <<user, showForm, editingSession, refreshTrigger, starts, alertShown>>
logVars == <<sessions, groupedSessions, loading, logError, logEditing, fetches, logOp>>

anVars == <<now, anSessions, anLoading, dateRange, showComparison, selectedRangeLabel,
            showCustomRange, customStartDate, customEndDate, chartCalled, chart>>

winVars == <<tab, mock>>

socVars == <<rulesEnforced, profiles, searchResults, searchError, friends, incomingRequests,
             friendsLoading, friendsError, friendsFetch, call>>

nameVars == <<usernames, nameOp, nameError>>

fpVars == <<showWorkSessions, selectedFriend, fpLoading, friend, stats, fpFetches>>

ruleVars == <<request>>

gateVars == <<needsUsernameSetup, appLoading, profileChecks>>

moreVars == <<nameVars, fpVars, ruleVars, gateVars>>

vars == <<ovVars, store, appVars, logVars, anVars, winVars, socVars, moreVars>>

-----------------------------------------------------------------------------
(* Time representations *)

MsPerSecond == 1000

\* a JavaScript Date holding the instant ms
DateOf(ms) == [kind |-> "Date", ms |-> ms]

\* a Firestore timestamp as the code reads it: { seconds }
TimestampOf(seconds) == [kind |-> "Timestamp", seconds |-> seconds]

\* Timestamp.fromDate, as used for startTime / endTime of a stored session
TimestampFromDate(d) == TimestampOf(d.ms \div MsPerSecond)

\* x instanceof Date ? x : new Date(x.seconds * 1000), as milliseconds
ToDateDropsScale(x) == IF x.kind = "Date" THEN x.ms ELSE x.seconds
ToDate(x) == IF x.kind = "Date" THEN x.ms ELSE x.seconds * MsPerSecond

\* timeUtils.hasOverlap(range1, range2)
hasOverlapClosed(range1, range2) ==
    LET start1 == ToDate(range1.startTime)
        end1   == ToDate(range1.endTime)
        start2 == ToDate(range2.startTime)
        end2   == ToDate(range2.endTime)
    IN  start1 <= end2 /\ start2 <= end1
hasOverlap(range1, range2) ==
    LET start1 == ToDate(range1.startTime)
        end1   == ToDate(range1.endTime)
        start2 == ToDate(range2.startTime)
        end2   == ToDate(range2.endTime)
    IN  start1 < end2 /\ start2 < end1

-----------------------------------------------------------------------------
(* The workSessions collection, and checkForSessionOverlap                   *)

Users == {"u1", "u2"}

MaxSessions == 3
SessionIds == 1..MaxSessions

\* null / undefined where a session is expected
NoSession == [id |-> 0]
NoId == NoSession.id

Doc(id, userId, startTime, endTime) ==
    [id |-> id, userId |-> userId, startTime |-> startTime, endTime |-> endTime]

\* query(collection(db, 'workSessions'), where('userId', '==', userId))
QueryByUser(docs, userId) == {d \in docs : d.userId = userId}

\* timeUtils.checkForSessionOverlap, on the snapshot getDocs resolves with
checkForSessionOverlapAllUsers(docs, userId, startTime, endTime, excludeSessionId) ==
    LET snapshot   == {d \in docs :
                          IF excludeSessionId # NoId THEN d.id # excludeSessionId ELSE TRUE}
        newSession == [startTime |-> startTime, endTime |-> endTime]
    IN  \E session \in snapshot :
            hasOverlap(newSession, [startTime |-> session.startTime,
                                    endTime   |-> session.endTime])
checkForSessionOverlap(docs, userId, startTime, endTime, excludeSessionId) ==
    LET snapshot   == {d \in QueryByUser(docs, userId) :
                          IF excludeSessionId # NoId THEN d.id # excludeSessionId ELSE TRUE}
        newSession == [startTime |-> startTime, endTime |-> endTime]
    IN  \E session \in snapshot :
            hasOverlap(newSession, [startTime |-> session.startTime,
                                    endTime   |-> session.endTime])

\* addDoc: the collection with a new document under a fresh id
FreshId(docs) == CHOOSE i \in SessionIds :
                    /\ i \notin {d.id : d \in docs}
                    /\ \A j \in SessionIds : j < i => j \in {d.id : d \in docs}
addDoc(docs, userId, startTime, endTime) ==
    docs \cup {Doc(FreshId(docs), userId, startTime, endTime)}

\* updateDoc of startTime / endTime on the document id (which must exist)
updateDoc(docs, id, startTime, endTime) ==
    {IF d.id = id THEN [d EXCEPT !.startTime = startTime, !.endTime = endTime] ELSE d :
        d \in docs}

\* deleteDoc
deleteDoc(docs, id) == {d \in docs : d.id # id}

-----------------------------------------------------------------------------
(* WorkSessionForm: the datetime-local inputs hold whole minutes             *)

MaxMinute == 2
MsPerMinute == 60 * MsPerSecond
MsPerDay == 24 * 60 * MsPerMinute

\* parseInputToDate of a "YYYY-MM-DDTHH:MM" input value
FormTimes == {DateOf(m * MsPerMinute) : m \in 0..MaxMinute}

\* WorkSessionForm.handleSubmit: parsedEndTime <= parsedStartTime is refused
FormAcceptsAll(startTime, endTime) == TRUE
FormAccepts(startTime, endTime) == ~(endTime.ms <= startTime.ms)

EndBeforeStartAlert == "End time must be after start time"
OverlapAlert == "This time slot overlaps with an existing work session. Please choose a different time."
SaveErrorAlert == "Error saving work session. Please try again."
UpdateErrorAlert == "Failed to update work session. Please try again."
DeleteErrorAlert == "Failed to delete work session. Please try again."

-----------------------------------------------------------------------------
(* WorkSessionLog: fetchSessions                                             *)

RECURSIVE SortDesc(_)
\* orderBy('startTime', 'desc'), ties by document id
SortDesc(D) ==
    IF D = {} THEN <<>>
    ELSE LET m == CHOOSE d \in D : \A e \in D :
                     \/ d.startTime.seconds > e.startTime.seconds
                     \/ d.startTime.seconds = e.startTime.seconds /\ d.id >= e.id
         IN  <<m>> \o SortDesc(D \ {m})

\* new Date(session.startTime.seconds * 1000).toLocaleDateString(...): the local
\* calendar day; a startTime without .seconds formats as "Invalid Date"
DateKey(session) ==
    IF session.startTime.kind = "Timestamp"
    THEN ToString((session.startTime.seconds * MsPerSecond) \div MsPerDay)
    ELSE "Invalid Date"

SeqRange(q) == {q[i] : i \in 1..Len(q)}

\* sessionData.reduce(...): the sessions of each date key, in list order
GroupByDate(sessionData) ==
    [k \in {DateKey(x) : x \in SeqRange(sessionData)} |->
        SelectSeq(sessionData, LAMBDA x : DateKey(x) = k)]

NoOp == [kind |-> "none"]
IdleStart == [pc |-> "idle"]

MaxInFlight == 1
Slots == 1..MaxInFlight
MaxRefresh == 1

-----------------------------------------------------------------------------
(* App: the "Start Work Session" form and handleStartSession                 *)

\* alert() blocks the page until it is dismissed
NoAlert == alertShown = ""

DismissAlert ==
    /\ alertShown # ""
    /\ alertShown' = ""
    /\ UNCHANGED <<ovVars, socVars, moreVars, winVars, anVars, store, user, showForm, editingSession, refreshTrigger, starts,
                   logVars, anVars>>

\* handleStartSession calls that will still add a document
PendingCreates == Cardinality({k \in Slots : starts[k].pc # "idle"})

\* the effect of WorkSessionLog on [user, refreshTrigger]: fetchSessions() starts
StartFetch(n) ==
    /\ fetches' = fetches \cup {[n |-> n, read |-> FALSE, docs |-> {}]}
    /\ loading' = TRUE
    /\ logError' = FALSE

\* onClick of "Start Work Session"
OpenForm ==
    /\ NoAlert
    /\ ~showForm
    /\ editingSession' = NoSession
    /\ showForm' = TRUE
    /\ UNCHANGED <<ovVars, socVars, moreVars, winVars, anVars, store, user, refreshTrigger, starts, alertShown, logVars>>

\* onCancel of the form App renders
CancelForm ==
    /\ NoAlert
    /\ showForm
    /\ showForm' = FALSE
    /\ editingSession' = NoSession
    /\ UNCHANGED <<ovVars, socVars, moreVars, winVars, anVars, store, user, refreshTrigger, starts, alertShown, logVars>>

\* WorkSessionForm.handleSubmit with onSubmit = App.handleStartSession, up to the
\* await of checkForSessionOverlap
FormSubmit(k, startTime, endTime) ==
    /\ NoAlert
    /\ showForm
    /\ starts[k].pc = "idle"
    /\ IF FormAccepts(startTime, endTime)
       THEN /\ Cardinality(store) + PendingCreates < MaxSessions
            /\ refreshTrigger + PendingCreates < MaxRefresh
            /\ starts' = [starts EXCEPT ![k] =
                            [pc |-> "checking", startTime |-> startTime,
                             endTime |-> endTime, editingSession |-> editingSession]]
            /\ UNCHANGED alertShown
       ELSE /\ alertShown' = EndBeforeStartAlert
            /\ UNCHANGED starts
    /\ UNCHANGED <<ovVars, socVars, moreVars, winVars, anVars, store, user, showForm, editingSession, refreshTrigger, logVars>>

\* handleStartSession: checkForSessionOverlap resolves; on overlap alert and return
OverlapDecisionIgnored(k) ==
    /\ NoAlert
    /\ starts[k].pc = "checking"
    /\ starts' = [starts EXCEPT ![k].pc = "writing"]
    /\ UNCHANGED alertShown
    /\ UNCHANGED <<ovVars, socVars, moreVars, winVars, anVars, store, user, showForm, editingSession, refreshTrigger, logVars>>
OverlapDecision(k) ==
    /\ NoAlert
    /\ starts[k].pc = "checking"
    /\ IF checkForSessionOverlap(store, user, starts[k].startTime, starts[k].endTime,
                                 starts[k].editingSession.id)
       THEN /\ alertShown' = OverlapAlert
            /\ starts' = [starts EXCEPT ![k] = IdleStart]
       ELSE /\ starts' = [starts EXCEPT ![k].pc = "writing"]
            /\ UNCHANGED alertShown
    /\ UNCHANGED <<ovVars, socVars, moreVars, winVars, anVars, store, user, showForm, editingSession, refreshTrigger, logVars>>

\* handleStartSession: updateDoc / addDoc resolves, then the three setters; the
\* new refreshTrigger re-runs the effect of WorkSessionLog
SessionWritten(k) ==
    /\ NoAlert
    /\ starts[k].pc = "writing"
    /\ starts[k].editingSession # NoSession =>
           starts[k].editingSession.id \in {d.id : d \in store}
    /\ store' = IF starts[k].editingSession # NoSession
                THEN updateDoc(store, starts[k].editingSession.id,
                               TimestampFromDate(starts[k].startTime),
                               TimestampFromDate(starts[k].endTime))
                ELSE addDoc(store, user,
                            TimestampFromDate(starts[k].startTime),
                            TimestampFromDate(starts[k].endTime))
    /\ showForm' = FALSE
    /\ editingSession' = NoSession
    /\ refreshTrigger' = refreshTrigger + 1
    /\ StartFetch(refreshTrigger + 1)
    /\ starts' = [starts EXCEPT ![k] = IdleStart]
    /\ UNCHANGED <<ovVars, socVars, moreVars, winVars, anVars, user, alertShown, sessions, groupedSessions, logEditing, logOp>>

\* handleStartSession: a store call rejects; the catch block alerts
StartSessionFails(k) ==
    /\ NoAlert
    /\ starts[k].pc \in {"checking", "writing"}
    /\ alertShown' = SaveErrorAlert
    /\ starts' = [starts EXCEPT ![k] = IdleStart]
    /\ UNCHANGED <<ovVars, socVars, moreVars, winVars, anVars, store, user, showForm, editingSession, refreshTrigger, logVars>>

-----------------------------------------------------------------------------
(* WorkSessionLog                                                            *)

\* fetchSessions: the store answers the workSessions query
FetchRead(f) ==
    /\ f \in fetches
    /\ ~f.read
    /\ fetches' = (fetches \ {f}) \cup
                    {[f EXCEPT !.read = TRUE, !.docs = QueryByUser(store, user)]}
    /\ UNCHANGED <<ovVars, socVars, moreVars, winVars, anVars, store, appVars, sessions, groupedSessions, loading,
                   logError, logEditing, logOp>>

\* fetchSessions: setSessions, setGroupedSessions, finally setLoading(false)
FetchDelivered(f) ==
    /\ NoAlert
    /\ f \in fetches
    /\ f.read
    /\ LET sessionData == SortDesc(f.docs)
       IN  /\ sessions' = sessionData
           /\ groupedSessions' = GroupByDate(sessionData)
    /\ loading' = FALSE
    /\ fetches' = fetches \ {f}
    /\ UNCHANGED <<ovVars, socVars, moreVars, winVars, anVars, store, appVars, logError, logEditing, logOp>>

\* fetchSessions: a query rejects; setError, finally setLoading(false)
FetchFails(f) ==
    /\ NoAlert
    /\ f \in fetches
    /\ logError' = TRUE
    /\ loading' = FALSE
    /\ fetches' = fetches \ {f}
    /\ UNCHANGED <<ovVars, socVars, moreVars, winVars, anVars, store, appVars, sessions, groupedSessions, logEditing, logOp>>

\* the list (and the edit form) render only when not loading and without error
ListShown == ~loading /\ ~logError

\* the sessions the list renders: Object.entries(groupedSessions)
Rendered == UNION {SeqRange(groupedSessions[k]) : k \in DOMAIN groupedSessions}

\* handleEditClick(session)
handleEditClick(session) ==
    /\ NoAlert
    /\ ListShown
    /\ session \in Rendered
    /\ logEditing # session
    /\ logEditing' = session
    /\ UNCHANGED <<ovVars, socVars, moreVars, winVars, anVars, store, appVars, sessions, groupedSessions, loading,
                   logError, fetches, logOp>>

\* onCancel of the edit form
CancelEdit ==
    /\ NoAlert
    /\ ListShown
    /\ logEditing # NoSession
    /\ logEditing' = NoSession
    /\ UNCHANGED <<ovVars, socVars, moreVars, winVars, anVars, store, appVars, sessions, groupedSessions, loading,
                   logError, fetches, logOp>>

\* WorkSessionForm.handleSubmit with onSubmit = handleEditSubmit, up to the await
\* of updateDoc; the handler closes over the rendered sessions
EditFormSubmit(startTime, endTime) ==
    /\ NoAlert
    /\ ListShown
    /\ logEditing # NoSession
    /\ logOp = NoOp
    /\ IF FormAccepts(startTime, endTime)
       THEN /\ logOp' = [kind |-> "edit", id |-> logEditing.id,
                         startTime |-> startTime, endTime |-> endTime,
                         sessions |-> sessions, groupedSessions |-> groupedSessions]
            /\ UNCHANGED alertShown
       ELSE /\ alertShown' = EndBeforeStartAlert
            /\ UNCHANGED logOp
    /\ UNCHANGED <<ovVars, socVars, moreVars, winVars, anVars, store, user, showForm, editingSession, refreshTrigger, starts,
                   sessions, groupedSessions, loading, logError, logEditing, fetches>>

\* { ...session, ...data }: the local copy takes the Dates of the form
MergeData(session, op) ==
    [session EXCEPT !.startTime = op.startTime, !.endTime = op.endTime]

\* handleEditSubmit: updateDoc resolves (the store keeps Dates as timestamps),
\* then setSessions and setEditingSession(null)
EditWritten ==
    /\ NoAlert
    /\ logOp.kind = "edit"
    /\ logOp.id \in {d.id : d \in store}
    /\ store' = updateDoc(store, logOp.id, TimestampFromDate(logOp.startTime),
                          TimestampFromDate(logOp.endTime))
    /\ sessions' = [i \in 1..Len(logOp.sessions) |->
                      IF logOp.sessions[i].id = logOp.id
                      THEN MergeData(logOp.sessions[i], logOp)
                      ELSE logOp.sessions[i]]
    /\ logEditing' = NoSession
    /\ logOp' = NoOp
    /\ UNCHANGED <<ovVars, socVars, moreVars, winVars, anVars, appVars, groupedSessions, loading, logError, fetches>>

\* the Delete Session button of the edit form: handleDelete(initialData.id), up
\* to the await of deleteDoc
DeleteClick ==
    /\ NoAlert
    /\ ListShown
    /\ logEditing # NoSession
    /\ logOp = NoOp
    /\ logOp' = [kind |-> "delete", id |-> logEditing.id,
                 sessions |-> sessions, groupedSessions |-> groupedSessions]
    /\ UNCHANGED <<ovVars, socVars, moreVars, winVars, anVars, store, appVars, sessions, groupedSessions, loading,
                   logError, logEditing, fetches>>

\* handleDelete: updatedGrouped without the session and without emptied dates
GroupedWithout(grouped, sessionId) ==
    LET kept(k) == SelectSeq(grouped[k], LAMBDA x : x.id # sessionId)
    IN  [k \in {j \in DOMAIN grouped : kept(j) # <<>>} |-> kept(k)]

\* handleDelete: deleteDoc resolves, then the three setters
DeleteDone ==
    /\ NoAlert
    /\ logOp.kind = "delete"
    /\ store' = deleteDoc(store, logOp.id)
    /\ logEditing' = NoSession
    /\ sessions' = SelectSeq(logOp.sessions, LAMBDA x : x.id # logOp.id)
    /\ groupedSessions' = GroupedWithout(logOp.groupedSessions, logOp.id)
    /\ logOp' = NoOp
    /\ UNCHANGED <<ovVars, socVars, moreVars, winVars, anVars, appVars, loading, logError, fetches>>

\* handleEditSubmit / handleDelete: the store call rejects; the catch block alerts
LogOpFails ==
    /\ NoAlert
    /\ logOp # NoOp
    /\ alertShown' = IF logOp.kind = "edit" THEN UpdateErrorAlert ELSE DeleteErrorAlert
    /\ logOp' = NoOp
    /\ UNCHANGED <<ovVars, socVars, moreVars, winVars, anVars, store, user, showForm, editingSession, refreshTrigger, starts,
                   sessions, groupedSessions, loading, logError, logEditing, fetches>>

-----------------------------------------------------------------------------
(* The application with one signed-in user                                   *)

\* documents present before the page is opened: one of the user's own sessions
\* and one of another user's
SeedDocs ==
    { Doc(1, "u1", TimestampOf(60), TimestampOf(120)),
      Doc(2, "u2", TimestampOf(0), TimestampOf(180)) }

StoreIdle == store = {}

WinIdle ==
    /\ tab = [pc |-> "idle", saves |-> 0]
    /\ mock = [pc |-> "idle", runs |-> 0]

\* a user document as UsernameSetup creates it: no friends, no requests
NewProfile == [friends |-> {}, incoming |-> {}, outgoing |-> {}]

\* no sendFriendRequest / acceptFriendRequest / rejectFriendRequest call yet
IdleCall ==
    [pc |-> "idle", kind |-> "none", target |-> "", failure |-> "none", changed |-> FALSE]

\* a fetchFriendsAndRequests call that is over, with the way it ended
EndedFetch(ended) == [pc |-> "idle", userData |-> NewProfile, ended |-> ended]

IdleFriendsFetch == EndedFetch("")

\* UserSearch and FriendsList as useState() initialises them
PagesStart ==
    /\ searchResults = {}
    /\ searchError = FALSE
    /\ friends = {}
    /\ incomingRequests = {}
    /\ friendsLoading = TRUE
    /\ friendsError = FALSE
    /\ friendsFetch = IdleFriendsFetch
    /\ call = IdleCall

\* new user documents, nothing done on the social page yet
SocStart == profiles = [u \in Users |-> NewProfile] /\ PagesStart

SocIdle == rulesEnforced = TRUE /\ SocStart

IdleNameOp == [pc |-> "idle", username |-> ""]

\* no handleSubmit running on either username page
NamePagesStart ==
    /\ nameOp = [u \in Users |-> IdleNameOp]
    /\ nameError = [u \in Users |-> ""]

\* both users have set up their usernames
NameIdle == usernames = [u \in Users |-> IF u = "u1" THEN "ann" ELSE "bob"] /\ NamePagesStart

FriendIds == {"u2", "u3"}

NoFriend == [id |-> ""]

NoStats == [userId |-> ""]

\* FriendProfile is not mounted
ProfileClosed ==
    /\ selectedFriend = ""
    /\ fpLoading = TRUE
    /\ friend = NoFriend
    /\ stats = NoStats
    /\ fpFetches = {}

\* every user document as UsernameSetup writes it
FpIdle == showWorkSessions = [f \in FriendIds |-> TRUE] /\ ProfileClosed

NoRequest == [auth |-> "", op |-> "none", id |-> 0, userId |-> "", allowed |-> FALSE]

RuleIdle == request = NoRequest

\* the profile check of the signed-in user has found the document
GateIdle ==
    /\ needsUsernameSetup = FALSE
    /\ appLoading = FALSE
    /\ profileChecks = {}

MoreIdle == NameIdle /\ FpIdle /\ RuleIdle /\ GateIdle

AppIdle ==
    /\ user = "u1"
    /\ showForm = FALSE
    /\ editingSession = NoSession
    /\ refreshTrigger = 0
    /\ starts = [k \in Slots |-> IdleStart]
    /\ alertShown = ""

LogIdle ==
    /\ sessions = <<>>
    /\ groupedSessions = <<>>
    /\ loading = TRUE
    /\ logError = FALSE
    /\ logEditing = NoSession
    /\ fetches = {}
    /\ logOp = NoOp

-----------------------------------------------------------------------------
(* AnalyticsPage: chartData                                                  *)
(* Dates are milliseconds of local time; a calendar day is MsPerDay long.     *)
(* A "YYYY-MM-DD" string is kept as the number of its day. Hours are kept in  *)
(* hundredths (the code keeps two decimals), focus levels as exact fractions. *)

\* date.setHours(0, 0, 0, 0)
StartOfDay(ms) == (ms \div MsPerDay) * MsPerDay

\* date.setHours(23, 59, 59, 999)
EndOfDay(ms) == StartOfDay(ms) + (MsPerDay - 1)

\* getLocalDateString(date)
getLocalDateString(ms) == ms \div MsPerDay

\* getPreviousPeriodDates(start, end)
getPreviousPeriodDatesFromStart(start, end) ==
    LET duration      == end - start
        previousEnd   == start
        previousStart == previousEnd - duration
    IN  [start |-> previousStart, end |-> previousEnd]
getPreviousPeriodDates(start, end) ==
    LET duration      == end - start
        previousEnd   == start - 1
        previousStart == previousEnd - duration
    IN  [start |-> previousStart, end |-> previousEnd]

\* previousPeriod when showComparison is off (null)
NoPeriod == [absent |-> TRUE]

RECURSIVE GCD(_, _)
GCD(a, b) == IF b = 0 THEN a ELSE GCD(b, a % b)

\* the number num / den (den > 0), in lowest terms
Frac(num, den) ==
    LET g == GCD(num, den)
    IN  IF num = 0 THEN [num |-> 0, den |-> 1] ELSE [num |-> num \div g, den |-> den \div g]

\* seconds in a hundredth of an hour
SecondsPerCentiHour == 36

\* Math.round(seconds / 36), the hundredths of durationInHours
DurationCentiHours(session) ==
    (2 * (session.endTime.seconds - session.startTime.seconds) + SecondsPerCentiHour)
        \div (2 * SecondsPerCentiHour)

\* isToday: currentDate and today have the same date, month and year
IsTodayOrLater(currentDate, today) ==
    getLocalDateString(currentDate) >= getLocalDateString(today)
IsToday(currentDate, today) ==
    getLocalDateString(currentDate) = getLocalDateString(today)

\* the while loop of chartData: one point per step of a day from dateRange.start
\* while currentDate <= rangeEndDate
EmptyDates(window, previousPeriod, today) ==
    LET count == IF window.start <= window.end
                 THEN (window.end - window.start) \div MsPerDay + 1
                 ELSE 0
    IN  [i \in 1..count |->
            LET currentDate == window.start + (i - 1) * MsPerDay
            IN  [ date               |-> getLocalDateString(currentDate),
                  hours              |-> 0,
                  focusLevel         |-> Frac(0, 1),
                  isToday            |-> IsToday(currentDate, today),
                  previousHours      |-> 0,
                  previousFocusLevel |-> Frac(0, 1),
                  comparisonDate     |->
                      IF previousPeriod # NoPeriod
                      THEN <<getLocalDateString(
                                currentDate - (window.end - window.start))>>
                      ELSE <<>> ]]

\* dates.find(d => d.date === dateStr): its index, 0 when there is none
FindDate(dates, dateStr) ==
    IF \E i \in 1..Len(dates) : dates[i].date = dateStr
    THEN CHOOSE i \in 1..Len(dates) :
            /\ dates[i].date = dateStr
            /\ \A j \in 1..(i - 1) : dates[j].date # dateStr
    ELSE 0

\* the body of filteredSessions.forEach
AddCurrent(dates, session) ==
    LET dateStr         == getLocalDateString(session.startTime.seconds * MsPerSecond)
        durationInHours == DurationCentiHours(session)
        i               == FindDate(dates, dateStr)
        existingDay     == dates[i]
        totalHours      == existingDay.hours + durationInHours
    IN  IF i = 0 THEN dates
        ELSE [dates EXCEPT ![i] =
                [existingDay EXCEPT
                    !.focusLevel =
                        IF existingDay.hours = 0
                        THEN Frac(session.focusLevel, 1)
                        ELSE Frac(existingDay.focusLevel.num * existingDay.hours
                                    + session.focusLevel * durationInHours
                                        * existingDay.focusLevel.den,
                                  existingDay.focusLevel.den * totalHours),
                    !.hours = existingDay.hours + durationInHours]]

\* the body of previousSessions.forEach
AddPrevious(dates, session, window, previousPeriod) ==
    LET date            == session.startTime.seconds * MsPerSecond
        durationInHours == DurationCentiHours(session)
        targetDate      == date + (window.end - previousPeriod.end)
        targetDateStr   == getLocalDateString(targetDate)
        i               == FindDate(dates, targetDateStr)
        existingDay     == dates[i]
        totalHours      == existingDay.previousHours + durationInHours
    IN  IF i = 0 THEN dates
        ELSE [dates EXCEPT ![i] =
                [existingDay EXCEPT
                    !.previousFocusLevel =
                        IF existingDay.previousHours = 0
                        THEN Frac(session.focusLevel, 1)
                        ELSE Frac(existingDay.previousFocusLevel.num
                                        * existingDay.previousHours
                                    + session.focusLevel * durationInHours
                                        * existingDay.previousFocusLevel.den,
                                  existingDay.previousFocusLevel.den * totalHours),
                    !.previousHours = existingDay.previousHours + durationInHours]]

RECURSIVE ForEachCurrent(_, _)
ForEachCurrent(dates, list) ==
    IF list = <<>> THEN dates
    ELSE ForEachCurrent(AddCurrent(dates, Head(list)), Tail(list))

RECURSIVE ForEachPrevious(_, _, _, _)
ForEachPrevious(dates, list, window, previousPeriod) ==
    IF list = <<>> THEN dates
    ELSE ForEachPrevious(AddPrevious(dates, Head(list), window, previousPeriod),
                         Tail(list), window, previousPeriod)

\* sessions.filter(sessionDate >= from && sessionDate <= to)
SessionsBetween(list, from, to) ==
    SelectSeq(list, LAMBDA x : /\ x.startTime.seconds * MsPerSecond >= from
                               /\ x.startTime.seconds * MsPerSecond <= to)

\* the useMemo body; clock is what new Date() returns when it runs
chartData(list, window, comparison, clock) ==
    LET today          == StartOfDay(clock)
        previousPeriod == IF comparison
                          THEN getPreviousPeriodDates(window.start, window.end)
                          ELSE NoPeriod
        dates          == EmptyDates(window, previousPeriod, today)
        rangeStart     == StartOfDay(window.start)
        rangeEnd       == EndOfDay(window.end)
        current        == ForEachCurrent(dates, SessionsBetween(list, rangeStart, rangeEnd))
    IN  IF previousPeriod # NoPeriod
        THEN ForEachPrevious(current,
                             SessionsBetween(list, previousPeriod.start, previousPeriod.end),
                             window, previousPeriod)
        ELSE current

\* the outcome of a call that returned value
Returned(value) == [threw |-> "", value |-> value]

AnIdle ==
    /\ now = 0
    /\ anSessions = <<>>
    /\ anLoading = FALSE
    /\ dateRange = [start |-> 0, end |-> 0]
    /\ showComparison = FALSE
    /\ selectedRangeLabel = ""
    /\ showCustomRange = FALSE
    /\ customStartDate = <<>>
    /\ customEndDate = <<>>
    /\ chartCalled = FALSE
    /\ chart = Returned(<<>>)

-----------------------------------------------------------------------------
(* hasOverlap on its own: the inputs are four instants, each handed over    *)
(* either as a Date or as a {seconds} timestamp.                             *)

MaxHalfSeconds == 4
HalfSecond == MsPerSecond \div 2

OvInstantSet == {k * HalfSecond : k \in 0..MaxHalfSeconds}

\* the representations an instant can be handed over in
RepsOf(ms) ==
    {DateOf(ms)} \cup
    (IF ms % MsPerSecond = 0 THEN {TimestampOf(ms \div MsPerSecond)} ELSE {})

OvIdle ==
    /\ ovInstants = <<0, 0, 0, 0>>
    /\ ovRanges = <<>>
    /\ ovCalled = FALSE
    /\ ovResult = FALSE

CkIdle ==
    /\ ckDocs = {}
    /\ ckArgs = <<>>
    /\ ckCalled = FALSE
    /\ ckResult = FALSE

InitOverlap ==
    /\ ovInstants \in {q \in OvInstantSet \X OvInstantSet \X OvInstantSet \X OvInstantSet :
                          q[1] < q[2] /\ q[3] < q[4]}
    /\ \E s1 \in RepsOf(ovInstants[1]), e1 \in RepsOf(ovInstants[2]),
          s2 \in RepsOf(ovInstants[3]), e2 \in RepsOf(ovInstants[4]) :
          ovRanges = << [startTime |-> s1, endTime |-> e1],
                        [startTime |-> s2, endTime |-> e2] >>
    /\ ovCalled = FALSE
    /\ ovResult = FALSE
    /\ CkIdle /\ StoreIdle /\ AppIdle /\ WinIdle /\ SocIdle /\ MoreIdle /\ LogIdle /\ AnIdle

CallHasOverlap ==
    /\ ~ovCalled
    /\ ovCalled' = TRUE
    /\ ovResult' = hasOverlap(ovRanges[1], ovRanges[2])
    /\ UNCHANGED <<winVars, socVars, moreVars, ovInstants, ovRanges, ckDocs, ckArgs, ckCalled, ckResult,
                   store, appVars, logVars, anVars>>

NextOverlap == CallHasOverlap

SpecOverlap == InitOverlap /\ [][NextOverlap]_vars

-----------------------------------------------------------------------------
(* checkForSessionOverlap on its own: any small collection, any arguments    *)

MaxCkDocs == 2

\* stored sessions hold whole minutes, start before end
StoredRanges ==
    {r \in [startTime : {TimestampFromDate(t) : t \in FormTimes},
            endTime   : {TimestampFromDate(t) : t \in FormTimes}] :
        r.startTime.seconds < r.endTime.seconds}

\* an id of the collection that holds no document
NoDoc == [absent |-> TRUE]

CkCollections ==
    {{Doc(i, f[i].userId, f[i].range.startTime, f[i].range.endTime) :
          i \in {j \in 1..MaxCkDocs : f[j] # NoDoc}} :
        f \in [1..MaxCkDocs -> {NoDoc} \cup [userId : Users, range : StoredRanges]]}

InitCheck ==
    /\ ckDocs \in CkCollections
    /\ ckArgs \in {a \in [userId : Users, startTime : FormTimes, endTime : FormTimes,
                           excludeSessionId : {NoId} \cup 1..MaxCkDocs] :
                      FormAccepts(a.startTime, a.endTime)}
    /\ ckCalled = FALSE
    /\ ckResult = FALSE
    /\ OvIdle /\ StoreIdle /\ AppIdle /\ WinIdle /\ SocIdle /\ MoreIdle /\ LogIdle /\ AnIdle

CallCheckForSessionOverlap ==
    /\ ~ckCalled
    /\ ckCalled' = TRUE
    /\ ckResult' = checkForSessionOverlap(ckDocs, ckArgs.userId, ckArgs.startTime,
                                          ckArgs.endTime, ckArgs.excludeSessionId)
    /\ UNCHANGED <<winVars, socVars, moreVars, ovInstants, ovRanges, ovCalled, ovResult, ckDocs, ckArgs,
                   store, appVars, logVars, anVars>>

NextCheck == CallCheckForSessionOverlap

SpecCheck == InitCheck /\ [][NextCheck]_vars

-----------------------------------------------------------------------------
(* chartData on its own: any session list, any window, either setting of the  *)
(* comparison switch                                                          *)

MaxDay == 2
MaxAnSessions == 2

TenOClock == 10 * 60 * MsPerMinute

\* times of day of a window bound
WindowTimes == {0, TenOClock, MsPerDay - 1}

WindowInstants == {d * MsPerDay + t : d \in 0..MaxDay, t \in WindowTimes}

\* <<duration in seconds, focus level>> of the sessions tried
SessionKinds == {<<60, 5>>, <<3600, 5>>, <<7200, 8>>}

\* seconds of the day at which a session starts
SessionStarts == {0, TenOClock \div MsPerSecond}

AnSession(startSeconds, kind) ==
    [ startTime  |-> TimestampOf(startSeconds),
      endTime    |-> TimestampOf(startSeconds + kind[1]),
      focusLevel |-> kind[2] ]

AnSessionPool ==
    {AnSession(d * (MsPerDay \div MsPerSecond) + t, kind) :
        d \in 0..MaxDay, t \in SessionStarts, kind \in SessionKinds}

AnSessionLists == UNION {[1..n -> AnSessionPool] : n \in 0..MaxAnSessions}

InitAggregate ==
    /\ anSessions \in AnSessionLists
    /\ dateRange \in [start : WindowInstants, end : WindowInstants]
    /\ showComparison \in BOOLEAN
    /\ now \in {d * MsPerDay + TenOClock : d \in {1, MaxDay + 1}}
    /\ anLoading = FALSE
    /\ selectedRangeLabel = ""
    /\ showCustomRange = FALSE
    /\ customStartDate = <<>>
    /\ customEndDate = <<>>
    /\ chartCalled = FALSE
    /\ chart = Returned(<<>>)
    /\ OvIdle /\ CkIdle /\ StoreIdle /\ AppIdle /\ WinIdle /\ SocIdle /\ MoreIdle /\ LogIdle

\* the useMemo callback runs
CallChartData ==
    /\ ~chartCalled
    /\ chartCalled' = TRUE
    /\ chart' = Returned(chartData(anSessions, dateRange, showComparison, now))
    /\ UNCHANGED <<ovVars, socVars, moreVars, winVars, store, appVars, logVars, now, anSessions, anLoading, dateRange,
                   showComparison, selectedRangeLabel, showCustomRange,
                   customStartDate, customEndDate>>

\* a dependency of the useMemo changes and changes back (or the page is
\* mounted again), so the callback runs once more on the same sessions,
\* window and flag, after days more days
ReevaluateChartData(days) ==
    /\ chartCalled
    /\ now + days * MsPerDay <= (MaxDay + 1) * MsPerDay + TenOClock
    /\ now' = now + days * MsPerDay
    /\ chart' = Returned(chartData(anSessions, dateRange, showComparison, now'))
    /\ UNCHANGED <<ovVars, socVars, moreVars, winVars, store, appVars, logVars, anSessions, anLoading, dateRange,
                   showComparison, selectedRangeLabel, showCustomRange,
                   customStartDate, customEndDate, chartCalled>>

NextAggregate ==
    \/ CallChartData
    \/ \E days \in {0, 1} : ReevaluateChartData(days)

SpecAggregate == InitAggregate /\ [][NextAggregate]_vars

-----------------------------------------------------------------------------
(* AnalyticsPage: the window selector. A month is taken to be long enough    *)
(* that getDate() is the number of the day.                                   *)

MaxTicks == 1
MaxPageSessions == 1

\* the clock when the page is opened
ClockStart == MaxDay * MsPerDay + TenOClock

\* date.getDate()
GetDate(ms) == ms \div MsPerDay

\* date.setDate(day): the day changes, the time of day stays
SetDate(ms, day) == day * MsPerDay + (ms % MsPerDay)

\* 'Last 7 Days' reaches back this many days
LastSevenDaysBack == 6

\* DATE_RANGES[0].getValue(): end = new Date() read at endClock, start = new
\* Date() read at startClock, then start.setDate(end.getDate() - 6)
LastSevenDays(endClock, startClock) ==
    [start |-> SetDate(startClock, GetDate(endClock) - LastSevenDaysBack),
     end   |-> endClock]

StartAfterEndAlert == "Start date must be before end date"

\* the values of a date input: empty, or a day
DateInputs == {<<>>} \cup {<<d>> : d \in 0..MaxDay}

\* the page re-renders: useMemo evaluates chartData
Rerender(list, window, comparison, clock) ==
    /\ chartCalled' = TRUE
    /\ chart' = Returned(chartData(list, window, comparison, clock))

PageShown == ~anLoading /\ NoAlert

InitAnalytics ==
    /\ \E tick \in 0..MaxTicks :
          /\ now = ClockStart + tick
          /\ dateRange = LastSevenDays(ClockStart, ClockStart + tick)
    /\ anSessions = <<>>
    /\ anLoading = TRUE
    /\ showComparison = FALSE
    /\ selectedRangeLabel = "Last 7 Days"
    /\ showCustomRange = FALSE
    /\ customStartDate = <<>>
    /\ customEndDate = <<>>
    /\ chartCalled = TRUE
    /\ chart = Returned(chartData(anSessions, dateRange, showComparison, now))
    /\ OvIdle /\ CkIdle /\ StoreIdle /\ AppIdle /\ WinIdle /\ SocIdle /\ MoreIdle /\ LogIdle

\* fetchSessions of AnalyticsPage: setSessions, finally setLoading(false)
AnFetchDelivered(list) ==
    /\ anLoading
    /\ NoAlert
    /\ anSessions' = list
    /\ anLoading' = FALSE
    /\ Rerender(list, dateRange, showComparison, now)
    /\ UNCHANGED <<ovVars, socVars, moreVars, winVars, store, appVars, logVars, now, dateRange, showComparison,
                   selectedRangeLabel, showCustomRange, customStartDate, customEndDate>>

\* handleDateRangeClick(DATE_RANGES[0]); the clock may tick between the two
\* new Date() of getValue
ClickLastSevenDays(tick) ==
    /\ PageShown /\ ~showCustomRange
    /\ now + tick <= ClockStart + MaxTicks
    /\ now' = now + tick
    /\ selectedRangeLabel' = "Last 7 Days"
    /\ dateRange' = LastSevenDays(now, now + tick)
    /\ Rerender(anSessions, dateRange', showComparison, now')
    /\ UNCHANGED <<ovVars, socVars, moreVars, winVars, store, appVars, logVars, anSessions, anLoading, showComparison,
                   showCustomRange, customStartDate, customEndDate>>

\* handleDateRangeClick of 'Custom Range': the dialog opens on the current window
ClickCustomRange ==
    /\ PageShown /\ ~showCustomRange
    /\ showCustomRange' = TRUE
    /\ customStartDate' = <<getLocalDateString(dateRange.start)>>
    /\ customEndDate' = <<getLocalDateString(dateRange.end)>>
    /\ UNCHANGED <<ovVars, socVars, moreVars, winVars, store, appVars, logVars, now, anSessions, anLoading, dateRange,
                   showComparison, selectedRangeLabel, chartCalled, chart>>

\* onChange of the two date inputs
ChangeCustomDates(startInput, endInput) ==
    /\ PageShown /\ showCustomRange
    /\ <<startInput, endInput>> # <<customStartDate, customEndDate>>
    /\ customStartDate' = startInput
    /\ customEndDate' = endInput
    /\ UNCHANGED <<ovVars, socVars, moreVars, winVars, store, appVars, logVars, now, anSessions, anLoading, dateRange,
                   showComparison, selectedRangeLabel, showCustomRange, chartCalled, chart>>

\* handleCustomRangeSubmit
handleCustomRangeSubmit ==
    /\ PageShown /\ showCustomRange
    /\ customStartDate # <<>> /\ customEndDate # <<>>
    /\ LET start == StartOfDay(customStartDate[1] * MsPerDay)
           end   == EndOfDay(customEndDate[1] * MsPerDay)
       IN  IF start > end
           THEN /\ alertShown' = StartAfterEndAlert
                /\ UNCHANGED <<dateRange, selectedRangeLabel, showCustomRange,
                               chartCalled, chart>>
           ELSE /\ dateRange' = [start |-> start, end |-> end]
                /\ selectedRangeLabel' = "Custom Range"
                /\ showCustomRange' = FALSE
                /\ Rerender(anSessions, dateRange', showComparison, now)
                /\ UNCHANGED alertShown
    /\ UNCHANGED <<ovVars, socVars, moreVars, winVars, store, user, showForm, editingSession, refreshTrigger, starts,
                   logVars, now, anSessions, anLoading, showComparison,
                   customStartDate, customEndDate>>

\* the Cancel and X buttons of the dialog
CloseCustomRange ==
    /\ PageShown /\ showCustomRange
    /\ showCustomRange' = FALSE
    /\ UNCHANGED <<ovVars, socVars, moreVars, winVars, store, appVars, logVars, now, anSessions, anLoading, dateRange,
                   showComparison, selectedRangeLabel, customStartDate, customEndDate,
                   chartCalled, chart>>

\* onClick of the comparison button
ToggleComparison ==
    /\ PageShown /\ ~showCustomRange
    /\ showComparison' = ~showComparison
    /\ Rerender(anSessions, dateRange, showComparison', now)
    /\ UNCHANGED <<ovVars, socVars, moreVars, winVars, store, appVars, logVars, now, anSessions, anLoading, dateRange,
                   selectedRangeLabel, showCustomRange, customStartDate, customEndDate>>

NextAnalytics ==
    \/ \E list \in {l \in AnSessionLists : Len(l) <= MaxPageSessions} : AnFetchDelivered(list)
    \/ \E tick \in 0..MaxTicks : ClickLastSevenDays(tick)
    \/ ClickCustomRange
    \/ \E startInput \in DateInputs, endInput \in DateInputs :
          ChangeCustomDates(startInput, endInput)
    \/ handleCustomRangeSubmit
    \/ CloseCustomRange
    \/ ToggleComparison
    \/ DismissAlert

SpecAnalytics == InitAnalytics /\ [][NextAnalytics]_vars

-----------------------------------------------------------------------------
(* A second tab of the same user: its form and its handleStartSession run on *)
(* the same workSessions collection.                                         *)

MaxTabSaves == 1

\* WorkSessionForm.handleSubmit in the second tab, up to the await of
\* checkForSessionOverlap (times the form refuses change nothing here)
TabFormSubmit(startTime, endTime) ==
    /\ tab.pc = "idle"
    /\ tab.saves < MaxTabSaves
    /\ FormAccepts(startTime, endTime)
    /\ tab' = [pc |-> "checking", saves |-> tab.saves + 1,
               startTime |-> startTime, endTime |-> endTime]
    /\ UNCHANGED <<ovVars, socVars, moreVars, mock, store, appVars, logVars, anVars>>

\* handleStartSession there: checkForSessionOverlap resolves; on overlap alert
\* and return
TabOverlapDecision ==
    /\ tab.pc = "checking"
    /\ tab' = IF checkForSessionOverlap(store, user, tab.startTime, tab.endTime, NoId)
              THEN [pc |-> "idle", saves |-> tab.saves]
              ELSE [tab EXCEPT !.pc = "writing"]
    /\ UNCHANGED <<ovVars, socVars, moreVars, mock, store, appVars, logVars, anVars>>

\* handleStartSession there: addDoc resolves
TabSessionWritten ==
    /\ tab.pc = "writing"
    /\ Cardinality(store) + PendingCreates < MaxSessions
    /\ store' = addDoc(store, user, TimestampFromDate(tab.startTime),
                       TimestampFromDate(tab.endTime))
    /\ tab' = [pc |-> "idle", saves |-> tab.saves]
    /\ UNCHANGED <<ovVars, socVars, moreVars, mock, appVars, logVars, anVars>>

\* handleStartSession there: a store call rejects
TabStartSessionFails ==
    /\ tab.pc \in {"checking", "writing"}
    /\ tab' = [pc |-> "idle", saves |-> tab.saves]
    /\ UNCHANGED <<ovVars, socVars, moreVars, mock, store, appVars, logVars, anVars>>

TabNext ==
    \/ \E startTime \in FormTimes, endTime \in FormTimes : TabFormSubmit(startTime, endTime)
    \/ TabOverlapDecision
    \/ TabSessionWritten
    \/ TabStartSessionFails

-----------------------------------------------------------------------------
(* createDummyData, started by "Generate Test Data" in the window of another *)
(* user. Only its writes to workSessions are followed.                       *)

\* the user signed in there
MockUser == "u2"

MaxMockDays == 1
MaxMockCount == 2
MaxGenerations == 1

MsPerHour == 60 * MsPerMinute

\* date.setHours(hours, minutes, 0, 0)
SetHoursMinutes(ms, hours, minutes) ==
    StartOfDay(ms) + hours * MsPerHour + minutes * MsPerMinute

\* date.setHours(hours): minutes, seconds and milliseconds stay
SetHours(ms, hours) == StartOfDay(ms) + hours * MsPerHour + (ms % MsPerHour)

\* date.getHours()
GetHours(ms) == (ms % MsPerDay) \div MsPerHour

\* [startHour, minute, duration] of a generated session: startHour is 8 +
\* Math.floor(Math.random() * 10), minute Math.floor(Math.random() * 60),
\* duration Math.floor(Math.random() * 4) + 1; the least and the greatest
MockPicks == {[startHour |-> 8, minute |-> 0, duration |-> 1],
              [startHour |-> 17, minute |-> 59, duration |-> 4]}
\* Math.floor(Math.random() * 4) + 2, up to MaxMockCount
MockCounts == 2..MaxMockCount

\* the [startTime, endTime] of one generated session of the day i days back
MockTimes(i, startHour, minute, duration) ==
    LET today     == EndOfDay(now)
        date      == today - i * MsPerDay
        startTime == SetHoursMinutes(date, startHour, minute)
        endTime   == SetHours(startTime, GetHours(startTime) + duration)
    IN  [startTime |-> DateOf(startTime), endTime |-> DateOf(endTime)]

\* onClick of "Generate Test Data": setIsGenerating(true), createDummyData
\* starts adding the projects
GenerateClick ==
    /\ mock.pc = "idle"
    /\ mock.runs < MaxGenerations
    /\ mock' = [pc |-> "projects", runs |-> mock.runs + 1]
    /\ UNCHANGED <<ovVars, socVars, moreVars, tab, store, appVars, logVars, anVars>>

\* the projects are added; the loop over the days starts with the count of the
\* sessions of today
MockProjectsAdded(count) ==
    /\ mock.pc = "projects"
    /\ mock' = [pc |-> "sessions", runs |-> mock.runs, i |-> 0, left |-> count]
    /\ UNCHANGED <<ovVars, socVars, moreVars, tab, store, appVars, logVars, anVars>>

\* one turn of the inner loop: await addDoc of a session; after the last
\* session of a day the outer loop goes a day back, after the last day
\* createDummyData returns and the window alerts its success
MockSessionAdded(pick, count) ==
    /\ mock.pc = "sessions"
    /\ Cardinality(store) + PendingCreates < MaxSessions
    /\ LET times == MockTimes(mock.i, pick.startHour, pick.minute, pick.duration)
       IN  store' = addDoc(store, MockUser, TimestampFromDate(times.startTime),
                           TimestampFromDate(times.endTime))
    /\ mock' = IF mock.left > 1 THEN [mock EXCEPT !.left = mock.left - 1]
               ELSE IF mock.i + 1 < MaxMockDays
                    THEN [mock EXCEPT !.i = mock.i + 1, !.left = count]
                    ELSE [pc |-> "alert", runs |-> mock.runs]
    /\ UNCHANGED <<ovVars, socVars, moreVars, tab, appVars, logVars, anVars>>

\* an addDoc rejects: createDummyData rethrows, the window alerts the error
MockFails ==
    /\ mock.pc \in {"projects", "sessions"}
    /\ mock' = [pc |-> "alert", runs |-> mock.runs]
    /\ UNCHANGED <<ovVars, socVars, moreVars, tab, store, appVars, logVars, anVars>>

\* the alert of that window is dismissed: it reloads (after a success),
\* finally setIsGenerating(false)
MockAlertDismissed ==
    /\ mock.pc = "alert"
    /\ mock' = [pc |-> "idle", runs |-> mock.runs]
    /\ UNCHANGED <<ovVars, socVars, moreVars, tab, store, appVars, logVars, anVars>>

MockNext ==
    \/ GenerateClick
    \/ \E count \in MockCounts : MockProjectsAdded(count)
    \/ \E pick \in MockPicks, count \in MockCounts : MockSessionAdded(pick, count)
    \/ MockFails
    \/ MockAlertDismissed

-----------------------------------------------------------------------------
(* The sessions page: App with WorkSessionLog mounted, its first fetch running *)

Init ==
    /\ OvIdle /\ CkIdle /\ AnIdle /\ WinIdle /\ SocIdle /\ MoreIdle
    /\ store \in SUBSET SeedDocs
    /\ user = "u1"
    /\ showForm = FALSE
    /\ editingSession = NoSession
    /\ refreshTrigger = 0
    /\ starts = [k \in Slots |-> IdleStart]
    /\ alertShown = ""
    /\ sessions = <<>>
    /\ groupedSessions = <<>>
    /\ loading = TRUE
    /\ logError = FALSE
    /\ logEditing = NoSession
    /\ fetches = {[n |-> 0, read |-> FALSE, docs |-> {}]}
    /\ logOp = NoOp

Next ==
    \/ OpenForm
    \/ CancelForm
    \/ \E k \in Slots, startTime \in FormTimes, endTime \in FormTimes :
          FormSubmit(k, startTime, endTime)
    \/ \E k \in Slots : OverlapDecision(k)
    \/ \E k \in Slots : SessionWritten(k)
    \/ \E k \in Slots : StartSessionFails(k)
    \/ \E f \in fetches : FetchRead(f)
    \/ \E f \in fetches : FetchDelivered(f)
    \/ \E f \in fetches : FetchFails(f)
    \/ \E session \in Rendered : handleEditClick(session)
    \/ CancelEdit
    \/ \E startTime \in FormTimes, endTime \in FormTimes : EditFormSubmit(startTime, endTime)
    \/ EditWritten
    \/ DeleteClick
    \/ DeleteDone
    \/ LogOpFails
    \/ DismissAlert

Spec == Init /\ [][Next]_vars

\* two tabs of the user saving new sessions: the "Start Work Session" form of
\* this page and of the second tab
NextTabs ==
    \/ OpenForm
    \/ CancelForm
    \/ \E k \in Slots, startTime \in FormTimes, endTime \in FormTimes :
          FormSubmit(k, startTime, endTime)
    \/ \E k \in Slots : OverlapDecision(k)
    \/ \E k \in Slots : SessionWritten(k)
    \/ \E k \in Slots : StartSessionFails(k)
    \/ \E f \in fetches : FetchRead(f)
    \/ \E f \in fetches : FetchDelivered(f)
    \/ \E f \in fetches : FetchFails(f)
    \/ DismissAlert
    \/ TabNext

SpecTabs == Init /\ [][NextTabs]_vars

\* the writers of workSessions: the sessions page of a new user while another
\* user generates test data
InitWrites == Init /\ store = {}

\* every handler that writes a work session, with what leads to it
NextWrites ==
    \/ OpenForm
    \/ \E k \in Slots, startTime \in FormTimes, endTime \in FormTimes :
          FormSubmit(k, startTime, endTime)
    \/ \E k \in Slots : OverlapDecision(k)
    \/ \E k \in Slots : SessionWritten(k)
    \/ \E f \in fetches : FetchRead(f)
    \/ \E f \in fetches : FetchDelivered(f)
    \/ \E session \in Rendered : handleEditClick(session)
    \/ \E startTime \in FormTimes, endTime \in FormTimes : EditFormSubmit(startTime, endTime)
    \/ EditWritten
    \/ DismissAlert
    \/ MockNext

SpecWrites == InitWrites /\ [][NextWrites]_vars

-----------------------------------------------------------------------------
(* Friend requests: the users collection, firestore.rules, UserSearch and
   FriendsList.  The users take turns at the one browser. *)

\* firestore.rules: request.auth != null; every caller here is signed in
isAuthenticated(auth) == auth \in Users

isOwner(auth, userId) == isAuthenticated(auth) /\ auth = userId

\* match /users/{userId}: allow write: if isOwner(userId)
AllowUserWrite(auth, userId) == rulesEnforced => isOwner(auth, userId)

\* match /users/{userId}: allow read: if isAuthenticated()
AllowUserRead(auth) == rulesEnforced => isAuthenticated(auth)

Running(c) == c.pc \in {"first", "second"}

OtherVars == <<ovVars, winVars, moreVars, store, logVars, anVars, showForm, editingSession,
               refreshTrigger, starts, alertShown>>

\* another user signs in at the browser: the pages are mounted anew
SignIn(u) ==
    /\ u # user
    /\ ~Running(call)
    /\ friendsFetch.pc = "idle"
    /\ user' = u
    /\ searchResults' = {}
    /\ searchError' = FALSE
    /\ friends' = {}
    /\ incomingRequests' = {}
    /\ friendsLoading' = TRUE
    /\ friendsError' = FALSE
    /\ friendsFetch' = IdleFriendsFetch
    /\ call' = IdleCall
    /\ UNCHANGED <<OtherVars, rulesEnforced, profiles>>

\* handleSearch: the users whose username starts with the query, without the
\* caller; the results carry no requestSent
handleSearch(matches) ==
    /\ AllowUserRead(user)
    /\ searchResults' = {[id |-> v, requestSent |-> FALSE] : v \in matches \ {user}}
    /\ searchError' = FALSE
    /\ UNCHANGED <<OtherVars, user, rulesEnforced, profiles, friends, incomingRequests,
                   friendsLoading, friendsError, friendsFetch, call>>

\* handleSearch when getDocs rejects
SearchFails ==
    /\ searchError' = TRUE
    /\ UNCHANGED <<OtherVars, user, rulesEnforced, profiles, searchResults, friends,
                   incomingRequests, friendsLoading, friendsError, friendsFetch, call>>

StartCall(kind, targetUserId) ==
    call' = [pc |-> "first", kind |-> kind, target |-> targetUserId, failure |-> "none",
             changed |-> FALSE]

\* click on "Add Friend" of a result: sendFriendRequest(targetUserId) is called
sendFriendRequest(targetUserId) ==
    /\ ~Running(call)
    /\ [id |-> targetUserId, requestSent |-> FALSE] \in searchResults
    /\ StartCall("send", targetUserId)
    /\ UNCHANGED <<OtherVars, user, rulesEnforced, profiles, searchResults, searchError,
                   friends, incomingRequests, friendsLoading, friendsError, friendsFetch>>

\* click on "Accept" of a displayed request
acceptFriendRequest(friendId) ==
    /\ ~Running(call)
    /\ ~friendsLoading
    /\ friendId \in incomingRequests
    /\ StartCall("accept", friendId)
    /\ UNCHANGED <<OtherVars, user, rulesEnforced, profiles, searchResults, searchError,
                   friends, incomingRequests, friendsLoading, friendsError, friendsFetch>>

\* click on "Reject" of a displayed request
rejectFriendRequest(friendId) ==
    /\ ~Running(call)
    /\ ~friendsLoading
    /\ friendId \in incomingRequests
    /\ StartCall("reject", friendId)
    /\ UNCHANGED <<OtherVars, user, rulesEnforced, profiles, searchResults, searchError,
                   friends, incomingRequests, friendsLoading, friendsError, friendsFetch>>

\* the first updateDoc of each handler, on the caller's own document
OwnUpdate(kind, profile, other) ==
    CASE kind = "send" ->
            [profile EXCEPT !.outgoing = @ \cup {other}]
      [] kind = "accept" ->
            [profile EXCEPT !.friends = @ \cup {other}, !.incoming = @ \ {other}]
      [] OTHER ->
            [profile EXCEPT !.incoming = @ \ {other}]

\* the second updateDoc of each handler, on the other user's document
OtherUpdate(kind, profile, caller) ==
    CASE kind = "send" ->
            [profile EXCEPT !.incoming = @ \cup {caller}]
      [] kind = "accept" ->
            [profile EXCEPT !.friends = @ \cup {caller}, !.outgoing = @ \ {caller}]
      [] OTHER ->
            [profile EXCEPT !.outgoing = @ \ {caller}]

\* the catch block: setError of the component the handler belongs to
CallCaught(failure) ==
    /\ call' = [call EXCEPT !.pc = "done", !.failure = failure]
    /\ IF call.kind = "send"
          THEN searchError' = TRUE /\ UNCHANGED friendsError
          ELSE friendsError' = TRUE /\ UNCHANGED searchError

\* the first await resolves, or the write is refused by the rules
FirstWrite ==
    /\ call.pc = "first"
    /\ IF AllowUserWrite(user, user)
          THEN /\ profiles' = [profiles EXCEPT ![user] = OwnUpdate(call.kind, @, call.target)]
               /\ call' = [call EXCEPT !.pc = "second",
                                       !.changed = profiles'[user] # profiles[user]]
               /\ UNCHANGED <<searchError, friendsError>>
          ELSE /\ CallCaught("rules")
               /\ UNCHANGED profiles
    /\ UNCHANGED <<OtherVars, user, rulesEnforced, searchResults, friends, incomingRequests,
                   friendsLoading, friendsFetch>>

\* the state update that follows the second await
UpdateUI(kind, target) ==
    /\ searchResults' =
          IF kind = "send"
             THEN {IF result.id = target THEN [result EXCEPT !.requestSent = TRUE] ELSE result :
                      result \in searchResults}
             ELSE searchResults
    /\ friends' =
          IF kind = "accept" /\ target \in incomingRequests
             THEN friends \cup {target}
             ELSE friends
    /\ incomingRequests' =
          IF kind = "reject" \/ (kind = "accept" /\ target \in incomingRequests)
             THEN incomingRequests \ {target}
             ELSE incomingRequests

\* the second await resolves and the state update runs, or the write is
\* refused by the rules and the catch block runs
SecondWrite ==
    /\ call.pc = "second"
    /\ IF AllowUserWrite(user, call.target)
          THEN /\ profiles' = [profiles EXCEPT ![call.target] = OtherUpdate(call.kind, @, user)]
               /\ call' = [call EXCEPT !.pc = "done",
                                       !.changed = @ \/ profiles'[call.target] # profiles[call.target]]
               /\ UpdateUI(call.kind, call.target)
               /\ UNCHANGED <<searchError, friendsError>>
          ELSE /\ CallCaught("rules")
               /\ UNCHANGED <<profiles, searchResults, friends, incomingRequests>>
    /\ UNCHANGED <<OtherVars, user, rulesEnforced, friendsLoading, friendsFetch>>

\* an updateDoc rejects because the store cannot be reached
CallFails ==
    /\ Running(call)
    /\ CallCaught("network")
    /\ UNCHANGED <<OtherVars, user, rulesEnforced, profiles, searchResults, friends,
                   incomingRequests, friendsLoading, friendsFetch>>

\* FriendsList is mounted: a new component whose effect calls
\* fetchFriendsAndRequests()
MountFriendsList ==
    /\ friendsFetch.pc = "idle"
    /\ ~Running(call)
    /\ friends' = {}
    /\ incomingRequests' = {}
    /\ friendsLoading' = TRUE
    /\ friendsError' = FALSE
    /\ friendsFetch' = [pc |-> "profile", userData |-> NewProfile, ended |-> ""]
    /\ UNCHANGED <<OtherVars, user, rulesEnforced, profiles, searchResults, searchError, call>>

\* the query for the user's own document resolves
ProfileFetched ==
    /\ friendsFetch.pc = "profile"
    /\ AllowUserRead(user)
    /\ friendsFetch' = [pc |-> "friends", userData |-> profiles[user], ended |-> ""]
    /\ UNCHANGED <<OtherVars, user, rulesEnforced, profiles, searchResults, searchError,
                   friends, incomingRequests, friendsLoading, friendsError, call>>

\* the friends query where('id', 'in', userData.friends): with an empty array
\* the outcome is the SDK's, rejected or no match; then setFriends, and the
\* finally block when there is no request to fetch
FriendsFetched(rejected) ==
    /\ friendsFetch.pc = "friends"
    /\ LET userData == friendsFetch.userData
       IN  IF userData.friends = {} /\ rejected
              THEN /\ friendsError' = TRUE
                   /\ friendsLoading' = FALSE
                   /\ friendsFetch' = EndedFetch("rejected")
                   /\ UNCHANGED friends
              ELSE /\ friends' = userData.friends
                   /\ IF userData.incoming # {}
                         THEN /\ friendsFetch' = [friendsFetch EXCEPT !.pc = "requests"]
                              /\ UNCHANGED friendsLoading
                         ELSE /\ friendsFetch' = EndedFetch("done")
                              /\ friendsLoading' = FALSE
                   /\ UNCHANGED friendsError
    /\ UNCHANGED <<OtherVars, user, rulesEnforced, profiles, searchResults, searchError,
                   incomingRequests, call>>

\* the requests query resolves: setIncomingRequests, then the finally block
RequestsFetched ==
    /\ friendsFetch.pc = "requests"
    /\ incomingRequests' = friendsFetch.userData.incoming
    /\ friendsLoading' = FALSE
    /\ friendsFetch' = EndedFetch("done")
    /\ UNCHANGED <<OtherVars, user, rulesEnforced, profiles, searchResults, searchError,
                   friends, friendsError, call>>

\* a getDocs of fetchFriendsAndRequests rejects: catch, then finally
FriendsFetchFails ==
    /\ friendsFetch.pc # "idle"
    /\ friendsError' = TRUE
    /\ friendsLoading' = FALSE
    /\ friendsFetch' = EndedFetch("network")
    /\ UNCHANGED <<OtherVars, user, rulesEnforced, profiles, searchResults, searchError,
                   friends, incomingRequests, call>>

\* new users on a store that does or does not enforce firestore.rules
InitFriends ==
    /\ rulesEnforced \in BOOLEAN
    /\ SocStart /\ MoreIdle
    /\ OvIdle /\ CkIdle /\ StoreIdle /\ AppIdle /\ WinIdle /\ LogIdle /\ AnIdle

NextFriends ==
    \/ \E u \in Users : SignIn(u)
    \/ \E matches \in SUBSET Users : handleSearch(matches)
    \/ SearchFails
    \/ \E targetUserId \in Users : sendFriendRequest(targetUserId)
    \/ \E friendId \in Users : acceptFriendRequest(friendId)
    \/ \E friendId \in Users : rejectFriendRequest(friendId)
    \/ FirstWrite
    \/ SecondWrite
    \/ CallFails
    \/ MountFriendsList
    \/ ProfileFetched
    \/ \E rejected \in BOOLEAN : FriendsFetched(rejected)
    \/ RequestsFetched
    \/ FriendsFetchFails

SpecFriends == InitFriends /\ [][NextFriends]_vars

-----------------------------------------------------------------------------
(* Usernames: UsernameSetup.handleSubmit and ProfilePage.handleSubmit, each
   user at a window of their own *)

\* what can be typed into UsernameSetup, whose input has the pattern
\* ^[a-zA-Z0-9_]{3,20}$
SetupTyped == {"ann", "Ann", "bob"}

\* what can be typed into ProfilePage, whose input is only required
ProfileTyped == {"ann", "Ann", "bob", " Bob "}

\* String.prototype.toLowerCase on the texts above
toLowerCase(text) ==
    CASE text = "Ann" -> "ann"
      [] text = "Bob" -> "bob"
      [] text = " Bob " -> " bob "
      [] OTHER -> text

\* String.prototype.trim on the texts above
trim(text) ==
    CASE text = " Bob " -> "Bob"
      [] text = " bob " -> "bob"
      [] OTHER -> text

NoDocument == ""

\* the documents the query where('username', '==', username) returns
usernameSnapshot(username) == {v \in Users : usernames[v] # NoDocument /\ usernames[v] = username}

OutsideNames == <<ovVars, winVars, socVars, fpVars, ruleVars, gateVars, store, appVars, logVars,
                  anVars>>

\* UsernameSetup.handleSubmit up to its first await; the page is shown to a
\* signed-in user without a document, the button is disabled while loading
SetupSubmit(u, text) ==
    /\ usernames[u] = NoDocument
    /\ nameOp[u].pc = "idle"
    /\ nameOp' = [nameOp EXCEPT ![u] = [pc |-> "query", username |-> toLowerCase(text)]]
    /\ nameError' = [nameError EXCEPT ![u] = ""]
    /\ UNCHANGED <<OutsideNames, usernames>>

\* ProfilePage.handleSubmit up to its first await; currentUsername is the
\* username the page loaded and last wrote
ProfileSubmit(u, text) ==
    /\ usernames[u] # NoDocument
    /\ nameOp[u].pc = "idle"
    /\ LET newUsername == toLowerCase(trim(text))
           currentUsername == usernames[u]
       IN  IF newUsername = currentUsername
              THEN /\ nameError' = [nameError EXCEPT ![u] = "different"]
                   /\ UNCHANGED nameOp
              ELSE /\ nameError' = [nameError EXCEPT ![u] = ""]
                   /\ nameOp' = [nameOp EXCEPT ![u] = [pc |-> "query", username |-> newUsername]]
    /\ UNCHANGED <<OutsideNames, usernames>>

\* the availability query resolves: a non-empty snapshot ends the call
AvailabilityAnswered(u) ==
    /\ nameOp[u].pc = "query"
    /\ IF usernameSnapshot(nameOp[u].username) # {}
          THEN /\ nameError' = [nameError EXCEPT ![u] = "taken"]
               /\ nameOp' = [nameOp EXCEPT ![u] = IdleNameOp]
          ELSE /\ nameOp' = [nameOp EXCEPT ![u].pc = "write"]
               /\ UNCHANGED nameError
    /\ UNCHANGED <<OutsideNames, usernames>>

\* setDoc of UsernameSetup, updateDoc of ProfilePage: the user's own document
\* gets the username
UsernameWritten(u) ==
    /\ nameOp[u].pc = "write"
    /\ usernames' = [usernames EXCEPT ![u] = nameOp[u].username]
    /\ nameOp' = [nameOp EXCEPT ![u] = IdleNameOp]
    /\ UNCHANGED <<OutsideNames, nameError>>

\* getDocs, setDoc or updateDoc rejects: catch, then finally
NameOpFails(u) ==
    /\ nameOp[u].pc # "idle"
    /\ nameError' = [nameError EXCEPT ![u] = "failed"]
    /\ nameOp' = [nameOp EXCEPT ![u] = IdleNameOp]
    /\ UNCHANGED <<OutsideNames, usernames>>

\* two signed-in users without documents
InitNames ==
    /\ usernames = [u \in Users |-> NoDocument]
    /\ NamePagesStart
    /\ FpIdle /\ RuleIdle /\ GateIdle
    /\ OvIdle /\ CkIdle /\ StoreIdle /\ AppIdle /\ WinIdle /\ SocIdle /\ LogIdle /\ AnIdle

NextNames ==
    \/ \E u \in Users, text \in SetupTyped : SetupSubmit(u, text)
    \/ \E u \in Users, text \in ProfileTyped : ProfileSubmit(u, text)
    \/ \E u \in Users : AvailabilityAnswered(u)
    \/ \E u \in Users : UsernameWritten(u)
    \/ \E u \in Users : NameOpFails(u)

SpecNames == InitNames /\ [][NextNames]_vars

-----------------------------------------------------------------------------
(* FriendProfile: the profile and the work sessions of the selected friend *)

\* firestore.rules, match /workSessions/{sessionId}, allow read: the caller's
\* own session, or a document users/{caller}/friends/{owner} exists; the
\* application keeps friends in an array field and never creates such a document
AllowSessionRead(auth, session) ==
    rulesEnforced => (isAuthenticated(auth) /\ session.userId = auth)

RecentLimit == 5

\* where('userId', '==', friendId), orderBy('startTime', 'desc'), limit(5)
RecentSessions(friendId) ==
    LET own == {d \in store : d.userId = friendId}
        Later(d) == {e \in own : \/ ToDate(e.startTime) > ToDate(d.startTime)
                                 \/ ToDate(e.startTime) = ToDate(d.startTime) /\ e.id < d.id}
    IN  {d \in own : Cardinality(Later(d)) < RecentLimit}

RECURSIVE TotalSeconds(_)
TotalSeconds(docs) ==
    IF docs = {} THEN 0
    ELSE LET d == CHOOSE x \in docs : TRUE
         IN  (d.endTime.seconds - d.startTime.seconds) + TotalSeconds(docs \ {d})

SecondsPerTenthHour == 360

\* Math.round(totalHours * 10) / 10, in tenths of an hour
RoundedTenths(seconds) == (2 * seconds + SecondsPerTenthHour) \div (2 * SecondsPerTenthHour)

\* the object given to setStats; userId tells whose sessions it was made from
StatsOf(friendId, docs) ==
    [userId |-> friendId, totalHours |-> RoundedTenths(TotalSeconds(docs)),
     totalSessions |-> Cardinality(docs), recentSessions |-> docs]

OutsideProfile == <<ovVars, winVars, socVars, nameVars, ruleVars, gateVars, store, appVars,
                    logVars, anVars>>

\* the friends list can be clicked: no profile is open, or the open one shows
\* the spinner or "Friend not found." instead of the modal
ListReachable == selectedFriend = "" \/ fpLoading \/ friend = NoFriend

\* the effect on [friendId]: fetchFriendProfile() starts with setLoading(true)
StartProfileFetch(friendId) ==
    /\ fpFetches' = fpFetches \cup {[friendId |-> friendId, pc |-> "profile"]}
    /\ fpLoading' = TRUE

\* click on a friend: setSelectedFriend(friend.id); FriendProfile is mounted,
\* or keeps its state when it is already there and gets a new friendId
SelectFriend(friendId) ==
    /\ ListReachable
    /\ friendId # selectedFriend
    /\ selectedFriend' = friendId
    /\ StartProfileFetch(friendId)
    /\ UNCHANGED <<OutsideProfile, showWorkSessions, friend, stats>>

\* onClose: FriendProfile is unmounted, its running calls have no effect any more
CloseProfile ==
    /\ selectedFriend # ""
    /\ ~ListReachable
    /\ selectedFriend' = ""
    /\ fpLoading' = TRUE
    /\ friend' = NoFriend
    /\ stats' = NoStats
    /\ fpFetches' = {}
    /\ UNCHANGED <<OutsideProfile, showWorkSessions>>

\* the decision taken on the profile read: fetch the sessions or not
FetchesSessionsAlways(userData) == TRUE
FetchesSessions(userData) == userData.showWorkSessions

\* the users query resolves: setFriend, then the sessions query is sent, or
\* the finally block runs
FriendFetched(f) ==
    /\ f.pc = "profile"
    /\ AllowUserRead(user)
    /\ LET userData == [id |-> f.friendId, showWorkSessions |-> showWorkSessions[f.friendId]]
       IN  /\ friend' = userData
           /\ IF FetchesSessions(userData)
                 THEN /\ fpFetches' = (fpFetches \ {f}) \cup {[f EXCEPT !.pc = "sessions"]}
                      /\ UNCHANGED fpLoading
                 ELSE /\ fpFetches' = fpFetches \ {f}
                      /\ fpLoading' = FALSE
    /\ UNCHANGED <<OutsideProfile, showWorkSessions, selectedFriend, stats>>

\* the workSessions query resolves: setStats, then finally; or it is refused
\* by the rules: catch, then finally
FriendSessionsFetched(f) ==
    /\ f.pc = "sessions"
    /\ LET docs == RecentSessions(f.friendId)
       IN  IF \A d \in docs : AllowSessionRead(user, d)
              THEN stats' = StatsOf(f.friendId, docs)
              ELSE UNCHANGED stats
    /\ fpFetches' = fpFetches \ {f}
    /\ fpLoading' = FALSE
    /\ UNCHANGED <<OutsideProfile, showWorkSessions, selectedFriend, friend>>

\* a getDocs of fetchFriendProfile rejects: catch, then finally
FriendFetchFails(f) ==
    /\ fpFetches' = fpFetches \ {f}
    /\ fpLoading' = FALSE
    /\ UNCHANGED <<OutsideProfile, showWorkSessions, selectedFriend, friend, stats>>

\* the statistics and the recent sessions are on screen
StatsDisplayed ==
    /\ selectedFriend # ""
    /\ ~fpLoading
    /\ friend # NoFriend
    /\ friend.showWorkSessions
    /\ stats # NoStats

\* "This user's work sessions are private." is on screen
PrivateDisplayed ==
    /\ selectedFriend # ""
    /\ ~fpLoading
    /\ friend # NoFriend
    /\ ~(friend.showWorkSessions /\ stats # NoStats)

FriendDocs ==
    { Doc(1, "u2", TimestampOf(0), TimestampOf(3600)),
      Doc(2, "u3", TimestampOf(60), TimestampOf(120)) }

\* two friends with sessions and any privacy settings, on a store that does or
\* does not enforce firestore.rules
InitProfile ==
    /\ rulesEnforced \in BOOLEAN
    /\ showWorkSessions \in [FriendIds -> BOOLEAN]
    /\ ProfileClosed
    /\ store = FriendDocs
    /\ SocStart /\ NameIdle /\ RuleIdle /\ GateIdle
    /\ OvIdle /\ CkIdle /\ AppIdle /\ WinIdle /\ LogIdle /\ AnIdle

NextProfile ==
    \/ \E friendId \in FriendIds : SelectFriend(friendId)
    \/ CloseProfile
    \/ \E f \in fpFetches : FriendFetched(f)
    \/ \E f \in fpFetches : FriendSessionsFetched(f)
    \/ \E f \in fpFetches : FriendFetchFails(f)

SpecProfile == InitProfile /\ [][NextProfile]_vars

-----------------------------------------------------------------------------
(* firestore.rules on workSessions: write requests of any signed-in client *)

NoResource == [id |-> 0]

\* match /workSessions/{sessionId}, allow write:
\*   isAuthenticated() && (!resource.data || resource.data.userId == request.auth.uid)
\* resource is the stored document, null for a create; what the rule gives
\* when resource is null is the rules engine's, refused or allowed
AllowSessionWrite(auth, resource, nullAllows) ==
    /\ isAuthenticated(auth)
    /\ IF resource = NoResource THEN nullAllows ELSE resource.userId = auth

RuleTimes == {TimestampOf(0), TimestampOf(60)}

OutsideRules == <<ovVars, winVars, socVars, nameVars, fpVars, gateVars, appVars, logVars, anVars>>

\* a client signed in as auth asks to create a document (addDoc / setDoc)
RequestCreate(auth, id, userId, startTime, nullAllows) ==
    /\ \A d \in store : d.id # id
    /\ LET allowed == rulesEnforced => AllowSessionWrite(auth, NoResource, nullAllows)
       IN  /\ request' = [auth |-> auth, op |-> "create", id |-> id, userId |-> userId,
                          allowed |-> allowed]
           /\ store' = IF allowed
                          THEN store \cup {Doc(id, userId, startTime, TimestampOf(startTime.seconds + 60))}
                          ELSE store
    /\ UNCHANGED <<OutsideRules, rulesEnforced>>

\* a client signed in as auth asks to update the fields of a stored document
RequestUpdate(auth, resource, userId, startTime) ==
    /\ resource \in store
    /\ LET allowed == rulesEnforced => AllowSessionWrite(auth, resource, FALSE)
       IN  /\ request' = [auth |-> auth, op |-> "update", id |-> resource.id, userId |-> userId,
                          allowed |-> allowed]
           /\ store' = IF allowed
                          THEN (store \ {resource}) \cup
                               {Doc(resource.id, userId, startTime,
                                    TimestampOf(startTime.seconds + 60))}
                          ELSE store
    /\ UNCHANGED <<OutsideRules, rulesEnforced>>

\* a client signed in as auth asks to delete a stored document
RequestDelete(auth, resource) ==
    /\ resource \in store
    /\ LET allowed == rulesEnforced => AllowSessionWrite(auth, resource, FALSE)
       IN  /\ request' = [auth |-> auth, op |-> "delete", id |-> resource.id,
                          userId |-> resource.userId, allowed |-> allowed]
           /\ store' = IF allowed THEN store \ {resource} ELSE store
    /\ UNCHANGED <<OutsideRules, rulesEnforced>>

\* a store that enforces firestore.rules, holding a session of each user
InitRules ==
    /\ rulesEnforced = TRUE
    /\ store = SeedDocs
    /\ request = NoRequest
    /\ SocStart /\ NameIdle /\ FpIdle /\ GateIdle
    /\ OvIdle /\ CkIdle /\ AppIdle /\ WinIdle /\ LogIdle /\ AnIdle

NextRules ==
    \/ \E auth \in Users, id \in SessionIds, userId \in Users, startTime \in RuleTimes,
          nullAllows \in BOOLEAN : RequestCreate(auth, id, userId, startTime, nullAllows)
    \/ \E auth \in Users, resource \in store, userId \in Users, startTime \in RuleTimes :
          RequestUpdate(auth, resource, userId, startTime)
    \/ \E auth \in Users, resource \in store : RequestDelete(auth, resource)

SpecRules == InitRules /\ [][NextRules]_vars

-----------------------------------------------------------------------------
(* App: sign-in, checkUserProfile and what App renders *)

NoUser == ""

OutsideGate == <<ovVars, winVars, socVars, fpVars, ruleVars, store, logVars, anVars, showForm,
                 editingSession, refreshTrigger, starts, alertShown>>

\* App renders <Login />
LoginShown == user = NoUser

\* App renders the spinner
SpinnerShown == user # NoUser /\ appLoading

\* App renders <UsernameSetup />
UsernameSetupShown == user # NoUser /\ ~appLoading /\ needsUsernameSetup

\* App renders <Layout> with the pages
LayoutShown == user # NoUser /\ ~appLoading /\ ~needsUsernameSetup

ProfileExists(u) == usernames[u] # NoDocument

\* onAuthStateChanged delivers a signed-in user: the effect on [user] calls
\* checkUserProfile(), which runs up to its getDoc
SignedIn(u) ==
    /\ user = NoUser
    /\ user' = u
    /\ profileChecks' = profileChecks \cup {u}
    /\ UNCHANGED <<OutsideGate, nameVars, needsUsernameSetup, appLoading>>

\* logout: onAuthStateChanged delivers null; checkUserProfile() sets loading
\* to false and returns
SignedOut ==
    /\ user # NoUser
    /\ nameOp[user].pc = "idle"
    /\ user' = NoUser
    /\ appLoading' = FALSE
    /\ UNCHANGED <<OutsideGate, nameVars, needsUsernameSetup, profileChecks>>

\* getDoc resolves: setNeedsUsernameSetup(true) when the document does not
\* exist, then the finally block
ProfileChecked(u) ==
    /\ u \in profileChecks
    /\ needsUsernameSetup' = (needsUsernameSetup \/ ~ProfileExists(u))
    /\ appLoading' = FALSE
    /\ profileChecks' = profileChecks \ {u}
    /\ UNCHANGED <<OutsideGate, nameVars, user>>

\* getDoc rejects: the catch block logs, then the finally block
ProfileCheckFails(u) ==
    /\ u \in profileChecks
    /\ appLoading' = FALSE
    /\ profileChecks' = profileChecks \ {u}
    /\ UNCHANGED <<OutsideGate, nameVars, user, needsUsernameSetup>>

\* UsernameSetup.handleSubmit of the page App shows, up to its first await
GateSetupSubmit(text) ==
    /\ UsernameSetupShown
    /\ nameOp[user].pc = "idle"
    /\ nameOp' = [nameOp EXCEPT ![user] = [pc |-> "query", username |-> toLowerCase(text)]]
    /\ nameError' = [nameError EXCEPT ![user] = ""]
    /\ UNCHANGED <<OutsideGate, gateVars, user, usernames>>

\* setDoc resolves, then onComplete(): handleUsernameSetupComplete
GateSetupWritten ==
    /\ user # NoUser
    /\ nameOp[user].pc = "write"
    /\ usernames' = [usernames EXCEPT ![user] = nameOp[user].username]
    /\ nameOp' = [nameOp EXCEPT ![user] = IdleNameOp]
    /\ needsUsernameSetup' = FALSE
    /\ UNCHANGED <<OutsideGate, user, nameError, appLoading, profileChecks>>

\* App is mounted once the first auth state is known: nobody signed in and
\* the effect has set loading to false, or a restored session whose check is
\* running; each user has a document or not
InitGate ==
    /\ user \in {NoUser} \cup Users
    /\ needsUsernameSetup = FALSE
    /\ appLoading = (user # NoUser)
    /\ profileChecks = (IF user = NoUser THEN {} ELSE {user})
    /\ usernames \in [Users -> {NoDocument, "bob"}]
    /\ \A u \in Users, v \in Users : u # v => usernames[u] = NoDocument \/ usernames[u] # usernames[v]
    /\ NamePagesStart
    /\ showForm = FALSE
    /\ editingSession = NoSession
    /\ refreshTrigger = 0
    /\ starts = [k \in Slots |-> IdleStart]
    /\ alertShown = ""
    /\ FpIdle /\ RuleIdle
    /\ OvIdle /\ CkIdle /\ StoreIdle /\ WinIdle /\ SocIdle /\ LogIdle /\ AnIdle

NextGate ==
    \/ \E u \in Users : SignedIn(u)
    \/ SignedOut
    \/ \E u \in Users : ProfileChecked(u)
    \/ \E u \in Users : ProfileCheckFails(u)
    \/ \E text \in SetupTyped : GateSetupSubmit(text)
    \/ user # NoUser /\ AvailabilityAnswered(user)
    \/ user # NoUser /\ NameOpFails(user)
    \/ GateSetupWritten

SpecGate == InitGate /\ [][NextGate]_vars

-----------------------------------------------------------------------------
\* C1: for well-formed ranges hasOverlap returns true exactly when
\* start1 < end2 and start2 < end1 on the instants themselves, whichever of the
\* four is passed as a Date and whichever as a {seconds} timestamp.
C1_HalfOpenOverlap ==
    ovCalled =>
        ovResult = (ovInstants[1] < ovInstants[4] /\ ovInstants[3] < ovInstants[2])

\* a call on mixed representations has returned true
C1_Witness ==
    /\ ovCalled /\ ovResult
    /\ ovRanges[1].startTime.kind = "Date"
    /\ ovRanges[1].endTime.kind = "Timestamp"
    /\ ovRanges[2].startTime.kind = "Timestamp"
    /\ ovRanges[2].endTime.kind = "Date"

-----------------------------------------------------------------------------
\* two stored sessions overlap as half-open ranges of instants
StoredOverlap(d, e) ==
    /\ d.startTime.seconds < e.endTime.seconds
    /\ e.startTime.seconds < d.endTime.seconds

\* a candidate given as Dates overlaps the stored session d
CandidateOverlaps(startTime, endTime, d) ==
    /\ startTime.ms < d.endTime.seconds * MsPerSecond
    /\ d.startTime.seconds * MsPerSecond < endTime.ms

\* C2: after any sequence of saves through handleStartSession and through the
\* edit form of WorkSessionLog, from a store without overlaps, no two stored
\* sessions of one user overlap.
C2_NoDoubleBooking ==
    \A d, e \in store :
        (d.id # e.id /\ d.userId = e.userId) => ~StoredOverlap(d, e)

\* C3: when checkForSessionOverlap reports an overlap, handleStartSession ends
\* without addDoc / updateDoc and leaves showForm, editingSession and
\* refreshTrigger as they were; no refresh of the log is started.
C3_OverlapRejectsSave ==
    [][\A k \in Slots :
         ( /\ starts[k].pc = "checking"
           /\ alertShown = ""
           /\ checkForSessionOverlap(store, user, starts[k].startTime, starts[k].endTime,
                                     starts[k].editingSession.id)
           /\ starts'[k] # starts[k] )
         => ( /\ starts'[k] = IdleStart
              /\ store' = store
              /\ showForm' = showForm
              /\ editingSession' = editingSession
              /\ refreshTrigger' = refreshTrigger
              /\ fetches' = fetches )]_vars

\* the overlap alert is on screen, the form still open and nothing was saved
C3_Witness ==
    /\ alertShown = OverlapAlert
    /\ showForm
    /\ refreshTrigger = 0
    /\ store \in SUBSET SeedDocs

\* C4: checkForSessionOverlap resolves to true exactly when some stored session
\* of that userId with an id other than excludeSessionId overlaps [start, end);
\* sessions of other users do not count.
C4_CheckIsExact ==
    ckCalled =>
        ckResult = (\E d \in ckDocs :
                      /\ d.userId = ckArgs.userId
                      /\ d.id # ckArgs.excludeSessionId
                      /\ CandidateOverlaps(ckArgs.startTime, ckArgs.endTime, d))

\* resolved false although another user's session and the excluded session overlap
C4_Witness ==
    /\ ckCalled /\ ~ckResult
    /\ \E d \in ckDocs : /\ d.userId # ckArgs.userId
                         /\ CandidateOverlaps(ckArgs.startTime, ckArgs.endTime, d)
    /\ \E d \in ckDocs : /\ d.userId = ckArgs.userId
                         /\ d.id = ckArgs.excludeSessionId
                         /\ CandidateOverlaps(ckArgs.startTime, ckArgs.endTime, d)

\* C5: saving an edited session compares it against the other sessions only: a
\* save with unchanged times is not rejected as overlapping itself, and a save
\* that overlaps a different session of the user is rejected (nothing is written).
C5_EditExcludesOwnVersion ==
    [][ /\ ( logOp.kind = "edit" /\ logOp' = NoOp /\ alertShown' = OverlapAlert )
           => \E d \in store : /\ d.id # logOp.id
                               /\ d.userId = user
                               /\ CandidateOverlaps(logOp.startTime, logOp.endTime, d)
        /\ ( /\ logOp.kind = "edit" /\ logOp' = NoOp
             /\ \E d \in store : /\ d.id # logOp.id
                                 /\ d.userId = user
                                 /\ CandidateOverlaps(logOp.startTime, logOp.endTime, d) )
           => store' = store ]_vars

\* C6: ranges that only touch do not overlap: hasOverlap is false when the
\* candidate ends where a session starts or starts where it ends, and
\* checkForSessionOverlap resolves to false for a candidate that starts exactly
\* when another session of the user ends and runs into none.
C6_TouchingIsNoOverlap ==
    ckCalled =>
        LET candidate == [startTime |-> ckArgs.startTime, endTime |-> ckArgs.endTime]
            mine == {d \in ckDocs : d.userId = ckArgs.userId /\ d.id # ckArgs.excludeSessionId}
            Touches(d) == \/ ckArgs.endTime.ms = d.startTime.seconds * MsPerSecond
                          \/ ckArgs.startTime.ms = d.endTime.seconds * MsPerSecond
            Apart(d) == \/ ckArgs.endTime.ms <= d.startTime.seconds * MsPerSecond
                        \/ d.endTime.seconds * MsPerSecond <= ckArgs.startTime.ms
        IN  /\ \A d \in ckDocs :
                 Touches(d) => ~hasOverlap(candidate, [startTime |-> d.startTime,
                                                       endTime   |-> d.endTime])
            /\ ( (\A d \in mine : Apart(d)) /\ (\E d \in mine : Touches(d)) ) => ~ckResult

\* resolved false for a candidate starting exactly where a session of the user ends
C6_Witness ==
    /\ ckCalled /\ ~ckResult
    /\ \E d \in ckDocs : /\ d.userId = ckArgs.userId
                         /\ d.id # ckArgs.excludeSessionId
                         /\ ckArgs.startTime.ms = d.endTime.seconds * MsPerSecond

-----------------------------------------------------------------------------
RECURSIVE SumSeq(_)
SumSeq(q) == IF q = <<>> THEN 0 ELSE Head(q) + SumSeq(Tail(q))

\* the sum of Term(x) over the elements x of the sequence q
SumOver(q, Term(_)) == SumSeq([i \in 1..Len(q) |-> Term(q[i])])

SessionSeconds(x) == x.endTime.seconds - x.startTime.seconds
WeightedSeconds(x) == x.focusLevel * SessionSeconds(x)
BucketHours(b) == b.hours

\* the sessions whose start lies in the window, taken as whole calendar days
InWindow == SessionsBetween(anSessions, StartOfDay(dateRange.start),
                            EndOfDay(dateRange.end))

\* the sessions of InWindow that start on the calendar day date
StartingOn(date) ==
    SelectSeq(InWindow,
              LAMBDA x : getLocalDateString(x.startTime.seconds * MsPerSecond) = date)

\* C7: for any window the hours of all buckets add up to the durations of the
\* sessions whose start falls inside the window.
C7_BucketsSumToWindow ==
    (chartCalled /\ dateRange.start <= dateRange.end) =>
        SecondsPerCentiHour * SumOver(chart.value, BucketHours)
            = SumOver(InWindow, SessionSeconds)

\* C8: there is exactly one bucket for every calendar day from the day of
\* window.start to the day of window.end, in ascending order, whatever the times
\* of day of the two bounds.
C8_OneBucketPerDay ==
    (chartCalled /\ dateRange.start <= dateRange.end) =>
        /\ Len(chart.value) = getLocalDateString(dateRange.end)
                                - getLocalDateString(dateRange.start) + 1
        /\ \A i \in 1..Len(chart.value) :
              chart.value[i].date = getLocalDateString(dateRange.start) + (i - 1)

\* C9: the focus level of every bucket is the exact duration-weighted mean
\* sum(focus * duration) / sum(duration) of the sessions of its day, in whatever
\* order the sessions are listed.
C9_ExactWeightedMean ==
    (chartCalled /\ dateRange.start <= dateRange.end) =>
        \A i \in 1..Len(chart.value) :
            LET mine == StartingOn(chart.value[i].date)
            IN  mine # <<>> =>
                    chart.value[i].focusLevel
                        = Frac(SumOver(mine, WeightedSeconds), SumOver(mine, SessionSeconds))

\* C10: a window with start after end makes the aggregation fail with
\* InvalidWindow instead of returning a bucket sequence.
C10_InvalidWindowFails ==
    (chartCalled /\ dateRange.start > dateRange.end) => chart.threw = "InvalidWindow"

\* a focus level that is a number (a fraction), not an absent score
IsNumber(score) == DOMAIN score = {"num", "den"}

\* C11: when no session starts inside the window, the aggregation returns a
\* bucket for every calendar day of the window, each with total duration 0 and
\* with no focus score (absent, not a number).
C11_EmptyWindowBuckets ==
    (chartCalled /\ dateRange.start <= dateRange.end /\ InWindow = <<>>) =>
        /\ Len(chart.value) = getLocalDateString(dateRange.end)
                                - getLocalDateString(dateRange.start) + 1
        /\ \A i \in 1..Len(chart.value) :
              /\ chart.value[i].date = getLocalDateString(dateRange.start) + (i - 1)
              /\ chart.value[i].hours = 0
              /\ ~IsNumber(chart.value[i].focusLevel)

\* the previous period of the window in use
PreviousPeriod == getPreviousPeriodDates(dateRange.start, dateRange.end)

\* the sessions the comparison takes from the previous period
InPrevious == SessionsBetween(anSessions, PreviousPeriod.start, PreviousPeriod.end)

PreviousStartingOn(date) ==
    SelectSeq(InPrevious,
              LAMBDA x : getLocalDateString(x.startTime.seconds * MsPerSecond) = date)

\* C13: with comparison enabled, every bucket's comparisonDate is the day as
\* far from the previous period's end day as the bucket is from the window's
\* end day, and the bucket's previousHours are made up of the previous-period
\* sessions that start on that day.
C13_ComparisonAligned ==
    (chartCalled /\ showComparison /\ dateRange.start <= dateRange.end) =>
        \A i \in 1..Len(chart.value) :
            LET bucket == chart.value[i]
                P      == bucket.comparisonDate[1]
            IN  /\ Len(bucket.comparisonDate) = 1
                /\ getLocalDateString(dateRange.end) - bucket.date
                      = getLocalDateString(PreviousPeriod.end) - P
                /\ bucket.previousHours
                      = SumOver(PreviousStartingOn(P), DurationCentiHours)

\* a number of seconds as hundredths of an hour, rounded once
RoundedCentiHours(seconds) ==
    (2 * seconds + SecondsPerCentiHour) \div (2 * SecondsPerCentiHour)

\* C14: durations are accumulated at full precision: the hours of every bucket
\* are the exact total of the durations of the sessions of its day, so in
\* hundredths of an hour they are that total rounded once, never a sum of
\* individually rounded durations.
C14_RoundedOnce ==
    (chartCalled /\ dateRange.start <= dateRange.end) =>
        \A i \in 1..Len(chart.value) :
            BucketHours(chart.value[i])
                = RoundedCentiHours(SumOver(StartingOn(chart.value[i].date), SessionSeconds))

\* C15: exactly the bucket whose date is today's local date is marked isToday;
\* every other bucket is not, so at most one bucket is marked and none when
\* today lies outside the window.
C15_OnlyTodayMarked ==
    chartCalled =>
        /\ \A i \in 1..Len(chart.value) :
              chart.value[i].isToday <=> chart.value[i].date = getLocalDateString(now)
        /\ Cardinality({i \in 1..Len(chart.value) : chart.value[i].isToday}) <= 1
        /\ (getLocalDateString(now) < getLocalDateString(dateRange.start)
              \/ getLocalDateString(now) > getLocalDateString(dateRange.end))
            => \A i \in 1..Len(chart.value) : ~chart.value[i].isToday

\* a window of several days with today inside: one bucket marked, another not
C15_Witness ==
    /\ chartCalled
    /\ \E i, j \in 1..Len(chart.value) :
          /\ chart.value[i].isToday
          /\ chart.value[i].date = getLocalDateString(now)
          /\ ~chart.value[j].isToday

\* a window that ends before today: buckets, none of them marked
C15_WitnessOutside ==
    /\ chartCalled
    /\ Len(chart.value) > 0
    /\ getLocalDateString(now) > getLocalDateString(dateRange.end)
    /\ \A i \in 1..Len(chart.value) : ~chart.value[i].isToday

\* C16: every work session in the store has start < end: the session form
\* calls onSubmit only with an end time strictly after the start time, so a
\* save or an edit only ever carries such times, and the generated test
\* sessions have start < end as well.
C16_StoredStartBeforeEnd ==
    /\ \A d \in store : ToDate(d.startTime) < ToDate(d.endTime)
    /\ \A k \in Slots :
          starts[k].pc # "idle" => ToDate(starts[k].startTime) < ToDate(starts[k].endTime)
    /\ logOp.kind = "edit" => ToDate(logOp.startTime) < ToDate(logOp.endTime)

\* the store holds a generated session and a session of the user saved through
\* the form, and the form has just refused times with end <= start
C16_Witness ==
    /\ \E d, e \in store : d.userId = MockUser /\ e.userId = user
    /\ alertShown = EndBeforeStartAlert

\* C17: the aggregation has no hidden state: an evaluation on the same
\* sessions, window and comparison flag as the one before returns the same
\* bucket sequence (dates, hours, focus levels, isToday marks, comparison
\* fields) and leaves the session list as it was.
C17_SameInputsSameBuckets ==
    [][(/\ chartCalled /\ chartCalled'
        /\ anSessions' = anSessions
        /\ dateRange' = dateRange
        /\ showComparison' = showComparison)
          => chart' = chart]_vars

\* two stored sessions of one user that share an instant
DoubleBooked ==
    \E d, e \in store :
        /\ d.id # e.id
        /\ d.userId = e.userId
        /\ hasOverlap([startTime |-> d.startTime, endTime |-> d.endTime],
                      [startTime |-> e.startTime, endTime |-> e.endTime])

\* C18: when two saves of the same user run concurrently (two tabs, each
\* reading the stored sessions, checking the overlap and then writing), at
\* most one of two overlapping candidates ends up stored, whatever the
\* interleaving: the store never holds two overlapping sessions of a user.
C18_ConcurrentSavesExclude == ~DoubleBooked


\* the documents of a sender and a target after a friend request went through
RequestRecorded(sender, target) ==
    /\ target \in profiles[sender].outgoing
    /\ sender \in profiles[target].incoming

\* C19: on a store that enforces firestore.rules, a sendFriendRequest call that
\* meets no network failure ends with the target in the sender's outgoing
\* requests, the sender in the target's incoming requests and the result
\* marked requestSent; a call that ends on a failed write leaves no document
\* altered.
C19_SendFriendRequestCompletes ==
    [][(rulesEnforced /\ call.kind = "send" /\ Running(call) /\ call'.pc = "done") =>
          /\ call'.failure # "network" =>
                /\ call'.failure = "none"
                /\ RequestRecorded(user, call.target)'
                /\ \A result \in searchResults' : result.id = call.target => result.requestSent
          /\ call'.failure # "none" => ~call'.changed]_vars

Symmetric == \A u \in Users, v \in Users : v \in profiles[u].friends <=> u \in profiles[v].friends

AcceptRunning == Running(call) /\ call.kind = "accept"

AcceptCompleted == call.kind = "accept" /\ call.pc = "done" /\ call.failure = "none"

\* C20: whenever no acceptFriendRequest call is running, F is a friend of U
\* exactly when U is a friend of F, also after a call whose second write
\* failed; and after a completed call the request is neither in the
\* acceptor's incoming nor in the sender's outgoing requests.
C20_FriendshipSymmetric ==
    /\ ~AcceptRunning => Symmetric
    /\ AcceptCompleted =>
          /\ call.target \notin profiles[user].incoming
          /\ user \notin profiles[call.target].outgoing


\* two user documents hold the same username
SharedUsername ==
    \E u \in Users, v \in Users :
        u # v /\ usernames[u] # NoDocument /\ usernames[u] = usernames[v]

\* C21: after any interleaving of username setups and username changes no two
\* user documents hold the same username, and a call never writes a username
\* that another user's document holds at that moment.
C21_UsernamesUnique ==
    [][/\ ~SharedUsername'
       /\ \A u \in Users :
             usernames'[u] # usernames[u] => usernameSnapshot(usernames'[u]) \subseteq {u}]_vars


\* C22: the work sessions of a friend are fetched only when the profile read
\* for that call had showWorkSessions true, and whenever statistics or
\* sessions are on screen they are those of a user whose showWorkSessions is
\* true, also after friendId changed between friends with different settings.
C22_PrivateSessionsHidden ==
    /\ \A f \in fpFetches : f.pc = "sessions" => showWorkSessions[f.friendId]
    /\ StatsDisplayed => showWorkSessions[stats.userId]

\* statistics are on screen although another friend, selected before, keeps
\* the sessions private
C22_Witness ==
    /\ StatsDisplayed
    /\ stats.recentSessions # {}
    /\ \E friendId \in FriendIds : ~showWorkSessions[friendId]


\* the stored document with the id of the last request, before and after
Stored(docs, id) == {d \in docs : d.id = id}

\* C23: under firestore.rules every create, update or delete of a workSessions
\* document is made by the user named in its userId: a created document names
\* its creator, an updated document named the caller before and names the
\* caller after, a deleted document named the caller.
C23_SessionWritesByOwner ==
    [][store' # store =>
          /\ \A d \in Stored(store, request'.id) : d.userId = request'.auth
          /\ \A d \in Stored(store', request'.id) : d.userId = request'.auth]_vars


\* C24: the main layout is rendered only when the signed-in user's profile
\* document exists, also between sign-in and the end of the profile check and
\* when the check fails.
C24_LayoutNeedsProfile == LayoutShown => ProfileExists(user)


\* fetchFriendsAndRequests ends in this step without a getDocs having failed
\* on the network
FriendsListLoaded ==
    /\ friendsFetch.pc \in {"friends", "requests"}
    /\ friendsFetch'.pc = "idle"
    /\ friendsFetch'.ended # "network"

\* C25: when FriendsList finishes loading, incomingRequests holds every user
\* of the friendRequests.incoming the call read from the profile, also when
\* the friends array it read is empty.
C25_IncomingRequestsShown ==
    [][FriendsListLoaded => friendsFetch.userData.incoming \subseteq incomingRequests']_vars


\* the date groups hold exactly the sessions of the list, each under the key
\* of its start date, and no group is empty
GroupedExactly(grouped, list) ==
    /\ \A x \in SeqRange(list) :
          /\ DateKey(x) \in DOMAIN grouped
          /\ \A k \in DOMAIN grouped :
                Cardinality({i \in 1..Len(grouped[k]) : grouped[k][i] = x}) =
                   (IF k = DateKey(x) THEN 1 ELSE 0)
    /\ \A k \in DOMAIN grouped :
          /\ grouped[k] # <<>>
          /\ SeqRange(grouped[k]) \subseteq SeqRange(list)

\* C26: after every completed fetch, edit or delete, groupedSessions is the
\* grouping of sessions by local start date: every session of the list is in
\* exactly one group, that of its date, with its current field values, no
\* group holds a session that is not in the list, and no group is empty.
C26_GroupedSessionsMatch == GroupedExactly(groupedSessions, sessions)


\* the response of a fetch that is not the most recently started one is
\* delivered after the most recently started one has been delivered
StaleDelivery ==
    /\ ~loading /\ ~logError
    /\ \A g \in fetches : g.n # refreshTrigger
    /\ \E f \in fetches : f.read /\ f.n < refreshTrigger /\ fetches' = fetches \ {f}
    /\ ~logError'

\* C27: with several fetches in flight, what is displayed once all of them
\* have completed is the result of the most recently started fetch: a
\* response of an earlier fetch that arrives after it leaves sessions and
\* groupedSessions as they are.
C27_LatestFetchDisplayed ==
    [][StaleDelivery => (sessions' = sessions /\ groupedSessions' = groupedSessions)]_vars

====
